---- MODULE Spec2Model ----
(***************************************************************************)
(* A model of the pliron IR framework's extensibility core: the dialect    *)
(* registry of a Context (src/src/dialect.rs), type interning, the builtin *)
(* attributes' printers and parsers (src/src/builtin/attributes.rs) and    *)
(* the error model (src/src/result.rs).                                    *)
(*                                                                         *)
(* Text is modelled as a sequence of one-character strings, so that a      *)
(* parser is a function of a character stream and a printer produces one.  *)
(* A stream position is a column on line 1 (no model input holds a line    *)
(* break).                                                                 *)
(***************************************************************************)
EXTENDS Integers, Sequences, FiniteSets, TLC

VARIABLES
    \* ---- the dialect registry of one Context (specification Spec)
    dialects,   \* Context.dialects: DialectName -> Dialect
    locals,     \* the Dialect objects built by Dialect::new and not yet registered
    nextId,     \* number of Dialect objects constructed so far (object identity)
    regLog,     \* history: the Dialect::register calls made, in program order
    okNames,    \* history: the names a DialectName parse has returned
    call,       \* history: the last operation called, with its arguments and outcome
    aborted,    \* TRUE once an assert! has failed (the process is gone)
    \* ---- the intern table of one Context (specification SpecIntern)
    typeTable,  \* the interned type instances; a handle is an index into it
    handed,     \* history: every (key, handle) a construction call has returned
    lastGet,    \* history: the last construction call
    \* ---- StringAttr::parse and its printer (specification SpecString)
    strIn,      \* the character stream handed to the parser, and its start column
    strOut,     \* what StringAttr::parse returned
    strText,    \* what printing the parsed attribute wrote
    \* ---- printing and parsing the builtin attributes (specification SpecAttr)
    attrIn,     \* the attribute the program built
    attrText,   \* its printed form
    attrOut,    \* what the attribute parser returned for the printed form
    attrText2,  \* the printed form of the parsed attribute
    \* ---- two DictAttr objects (specification SpecDict)
    dictA,      \* the first DictAttr, once DictAttr::new has built it
    dictB,      \* the second one
    dictLast,   \* history: per object and key, the value last inserted and not removed
    dictCall,   \* history: the last DictAttr call, with its arguments and outcome
    \* ---- building and rendering Errors (specification SpecErr)
    errVal,     \* the Error at hand
    errRes,     \* what the last macro returned: the Error, or Err of it
    errText,    \* the text the Error was rendered to
    errCall,    \* history: the last step, with its arguments
    \* ---- two attribute objects and the Context's types (specification SpecObj)
    objA,       \* the first AttrObj, once built
    objB,       \* the second one
    objCall,    \* history: the last call, with its arguments and outcome
    \* ---- one Operation and its interface checks (specification SpecOp)
    opObj,      \* the Operation, once built
    opCall,     \* history: the last call, with its outcome
    \* ---- one VecAttr and its verification (specification SpecVec)
    vecAttr,    \* the VecAttr at hand
    vecCall     \* history: the verify call, with its outcome

registryVars == <<dialects, locals, nextId, regLog, okNames, call, aborted>>

internVars == <<typeTable, handed, lastGet>>

stringVars == <<strIn, strOut, strText>>

attrVars == <<attrIn, attrText, attrOut, attrText2>>

dictVars == <<dictA, dictB, dictLast, dictCall>>

\* The state of the specifications that follow the first four.
errVars == <<errVal, errRes, errText, errCall>>

objVars == <<objA, objB, objCall>>

opVars == <<opObj, opCall>>

vecVars == <<vecAttr, vecCall>>

restVars == <<dictVars, errVars, objVars, opVars, vecVars>>

vars == <<registryVars, internVars, stringVars, attrVars, restVars>>

----------------------------------------------------------------------------
(* Bounds of the model. *)

\* Dialect::new calls made on one Context.
MaxDialects == 2

\* Ids (ops, types and attributes together) held by the Dialects of one Context.
MaxIds == 1

\* Length of the character stream handed to DialectName::parse.
MaxInputLen == 2

----------------------------------------------------------------------------
(* Characters and identifiers. *)

\* The characters an identifier is made of; "." is one that ends it.
IdChars == {"a"}

DialectChars == IdChars \cup {"."}

\* The names the program gives its dialects: one is a prefix of the other.
DialectNames == {<<"a">>, <<"a", "a">>}

\* The local names of the op, type and attribute kinds.
LocalNames == {"x"}

\* OpId / TypeId / AttrId: (dialect, name).
Ids == [dialect : DialectNames, name : LocalNames]

RECURSIVE SeqsUpTo(_, _)
\* The sequences over S of length 0..n.
SeqsUpTo(S, n) ==
    IF n = 0 THEN {<<>>}
    ELSE LET shorter == SeqsUpTo(S, n - 1)
         IN  shorter \cup {Append(s, c) : s \in {t \in shorter : Len(t) = n - 1}, c \in S}

DialectInputs == SeqsUpTo(DialectChars, MaxInputLen) \ {<<>>}

\* The columns at which a DialectName may start in its input.
StartCols == {1, 5}

----------------------------------------------------------------------------
(* Dialect (src/src/dialect.rs). *)

\* Dialect::new: an unregistered dialect with no ops, types or attributes.
\* `id` is the identity of the object, which the code has as its address.
DialectNew(id, name) ==
    [id |-> id, name |-> name, ops |-> <<>>, types |-> <<>>, attributes |-> <<>>]

\* A register that replaces the Dialect already in the table.
RegisterOverwrite(table, d) ==
    [n \in DOMAIN table \cup {d.name} |-> IF n = d.name THEN d ELSE table[n]]

\* Dialect::register: ctx.dialects.entry(self.name.clone()).or_insert(self).
DialectRegister(table, d) ==
    IF d.name \in DOMAIN table
    THEN table
    ELSE [n \in DOMAIN table \cup {d.name} |-> IF n = d.name THEN d ELSE table[n]]

\* An add that lacks the assert! on the id's dialect.
AddUnchecked(d, field, id) ==
    [aborted |-> FALSE, d |-> [d EXCEPT ![field] = Append(@, id)]]

\* Dialect::add_op / add_type / add_attr: assert!(id.dialect == self.name), then
\* push. `field` is the list the method pushes to. A failed assert! panics
\* before the push.
DialectAdd(d, field, id) ==
    IF id.dialect # d.name
    THEN [aborted |-> TRUE, d |-> d]
    ELSE [aborted |-> FALSE, d |-> [d EXCEPT ![field] = Append(@, id)]]

NumIds(d) == Len(d.ops) + Len(d.types) + Len(d.attributes)

RECURSIVE SumIds(_)
\* The ids held by the Dialects of the set S.
SumIds(S) ==
    IF S = {} THEN 0
    ELSE LET d == CHOOSE x \in S : TRUE
         IN  NumIds(d) + SumIds(S \ {d})

\* Every id of a Dialect's three lists.
IdsOf(d) ==
    {d.ops[i] : i \in DOMAIN d.ops}
        \cup {d.types[i] : i \in DOMAIN d.types}
        \cup {d.attributes[i] : i \in DOMAIN d.attributes}

----------------------------------------------------------------------------
(* DialectName::parse (src/src/dialect.rs). *)

RECURSIVE IdPrefixLen(_)
\* Length of the longest prefix of `input` made of identifier characters.
IdPrefixLen(input) ==
    IF input = <<>> \/ Head(input) \notin IdChars
    THEN 0
    ELSE 1 + IdPrefixLen(Tail(input))

\* parsable::parse_id: reads a bare identifier, the longest one the input
\* starts with; fails without consuming when the input starts with none.
ParseId(input) ==
    LET n == IdPrefixLen(input)
    IN  IF n = 0
        THEN [ok |-> FALSE, consumed |-> 0]
        ELSE [ok |-> TRUE, val |-> SubSeq(input, 1, n), consumed |-> n]

\* The error kinds of result.rs, and NoKind for an error that is no result::Error.
ErrorKinds == {"InvalidInput", "VerificationFailed", "InvalidArgument"}

NoKind == "none"

\* A parse that accepts every identifier.
DialectNameParseAny(table, input, col) ==
    LET id == ParseId(input)
    IN  IF ~id.ok
        THEN [ok |-> FALSE, variant |-> "Unexpected", kind |-> NoKind,
              msg |-> <<"Unexpected">>, col |-> col]
        ELSE [ok |-> TRUE, val |-> id.val, consumed |-> id.consumed]

\* DialectName::parse: parse_id().and_then(|name| if ctx.dialects.contains_key
\* then Ok(name) else Err(easy::Error::Message("Unregistered dialect {name}"))).
\* and_then reports the closure's error at the position the stream had before
\* parse_id ran. The error is combine's easy::Error::Message: no result::Error
\* is built, so it carries no ErrorKind.
DialectNameParse(table, input, col) ==
    LET id == ParseId(input)
    IN  IF ~id.ok
        THEN [ok |-> FALSE, variant |-> "Unexpected", kind |-> NoKind,
              msg |-> <<"Unexpected">>, col |-> col]
        ELSE IF id.val \in DOMAIN table
        THEN [ok |-> TRUE, val |-> id.val, consumed |-> id.consumed]
        ELSE [ok |-> FALSE, variant |-> "Message", kind |-> NoKind,
              msg |-> <<"Unregistered dialect ", id.val>>, col |-> col]

----------------------------------------------------------------------------
(* The registry as a state machine. *)

NoCall == [op |-> "none"]

NoGet == [op |-> "none"]

NoStr == [op |-> "none"]

\* The parts of the state a specification does not use stay as they are here.
RegistryIdle ==
    /\ dialects = <<>>
    /\ locals = {}
    /\ nextId = 0
    /\ regLog = <<>>
    /\ okNames = {}
    /\ call = NoCall
    /\ aborted = FALSE

InternIdle ==
    /\ typeTable = <<>>
    /\ handed = {}
    /\ lastGet = NoGet

StringIdle ==
    /\ strIn = NoStr
    /\ strOut = NoStr
    /\ strText = <<>>

NoAttr == [op |-> "none"]

AttrIdle ==
    /\ attrIn = NoAttr
    /\ attrText = <<>>
    /\ attrOut = NoAttr
    /\ attrText2 = <<>>

NoDict == [kind |-> "none"]

DictIdle ==
    /\ dictA = NoDict
    /\ dictB = NoDict
    /\ dictLast = <<>>
    /\ dictCall = NoCall

NoErr == [type |-> "none"]

ErrIdle ==
    /\ errVal = NoErr
    /\ errRes = NoErr
    /\ errText = <<>>
    /\ errCall = NoCall

NoObj == [kind |-> "none"]

ObjIdle ==
    /\ objA = NoObj
    /\ objB = NoObj
    /\ objCall = NoCall

NoOp == [kind |-> "none"]

OpIdle ==
    /\ opObj = NoOp
    /\ opCall = NoCall

VecIdle ==
    /\ vecAttr = NoObj
    /\ vecCall = NoCall

RestIdle == DictIdle /\ ErrIdle /\ ObjIdle /\ OpIdle /\ VecIdle

\* The Dialect objects alive: the unregistered ones and those the Context owns.
Alive == locals \cup {dialects[n] : n \in DOMAIN dialects}

Init ==
    /\ RegistryIdle
    /\ InternIdle
    /\ StringIdle
    /\ AttrIdle
    /\ RestIdle

\* let d = Dialect::new(DialectName::new(name));
New(name) ==
    /\ ~aborted
    /\ nextId < MaxDialects
    /\ nextId' = nextId + 1
    /\ locals' = locals \cup {DialectNew(nextId + 1, name)}
    /\ call' = [op |-> "new", name |-> name]
    /\ UNCHANGED <<dialects, regLog, okNames, aborted, internVars, stringVars, attrVars, restVars>>

\* d.register(ctx): consumes d.
Register(d) ==
    /\ ~aborted
    /\ dialects' = DialectRegister(dialects, d)
    /\ locals' = locals \ {d}
    /\ regLog' = Append(regLog, [name |-> d.name, id |-> d.id])
    /\ call' = [op |-> "register", name |-> d.name, id |-> d.id,
                present |-> d.name \in DOMAIN dialects, before |-> dialects]
    /\ UNCHANGED <<nextId, okNames, aborted, internVars, stringVars, attrVars, restVars>>

\* d.add_op(id) / d.add_type(id) / d.add_attr(id) on a Dialect not yet registered.
AddLocal(d, field, id) ==
    LET r == DialectAdd(d, field, id)
    IN  /\ ~aborted
        /\ SumIds(Alive) < MaxIds
        /\ aborted' = r.aborted
        /\ locals' = (locals \ {d}) \cup {r.d}
        /\ call' = [op |-> "add", field |-> field, id |-> id, self |-> d,
                    after |-> r.d, returned |-> IF r.aborted THEN "nothing" ELSE "unit"]
        /\ UNCHANGED <<dialects, nextId, regLog, okNames, internVars, stringVars, attrVars, restVars>>

\* Dialect::get_mut(ctx, name).unwrap().add_op(id) (or add_type, add_attr).
AddRegistered(name, field, id) ==
    LET d == dialects[name]
        r == DialectAdd(d, field, id)
    IN  /\ ~aborted
        /\ SumIds(Alive) < MaxIds
        /\ aborted' = r.aborted
        /\ dialects' = [dialects EXCEPT ![name] = r.d]
        /\ call' = [op |-> "add", field |-> field, id |-> id, self |-> d,
                    after |-> r.d, returned |-> IF r.aborted THEN "nothing" ELSE "unit"]
        /\ UNCHANGED <<locals, nextId, regLog, okNames, internVars, stringVars, attrVars, restVars>>

\* DialectName::parser().parse(stream) with the stream at column col.
Parse(input, col) ==
    LET r == DialectNameParse(dialects, input, col)
    IN  /\ ~aborted
        /\ call' = [op |-> "parse", input |-> input, col |-> col, res |-> r]
        /\ okNames' = IF r.ok THEN okNames \cup {r.val} ELSE okNames
        /\ UNCHANGED <<dialects, locals, nextId, regLog, aborted, internVars, stringVars, attrVars, restVars>>

Fields == {"ops", "types", "attributes"}

Next ==
    \/ \E name \in DialectNames : New(name)
    \/ \E d \in locals : Register(d)
    \/ \E d \in locals, field \in Fields, id \in Ids : AddLocal(d, field, id)
    \/ \E name \in DOMAIN dialects, field \in Fields, id \in Ids :
            AddRegistered(name, field, id)
    \/ \E input \in DialectInputs, col \in StartCols : Parse(input, col)

Spec == Init /\ [][Next]_vars

----------------------------------------------------------------------------
(* Properties of the dialect registry. *)

\* The names registered so far, by the history of register calls.
RegisteredNames == {regLog[i].name : i \in DOMAIN regLog}

\* The identity of the first Dialect registered under `name`.
FirstRegistered(name) ==
    LET first == CHOOSE i \in DOMAIN regLog :
                    /\ regLog[i].name = name
                    /\ \A j \in DOMAIN regLog : regLog[j].name = name => i <= j
    IN  regLog[first].id

\* C2: Dialect::register is insert-if-absent. A register call under a name
\* already in Context.dialects leaves the table as it was (the Dialect first
\* registered keeps its place and its lists) and does not fail; so the table
\* holds, under each name ever registered, the first Dialect registered under it.
RegisterIsInsertIfAbsent ==
    /\ call.op = "register" /\ call.present => dialects = call.before /\ ~aborted
    /\ DOMAIN dialects = RegisteredNames
    /\ \A n \in DOMAIN dialects :
            dialects[n].name = n /\ dialects[n].id = FirstRegistered(n)

\* A second Dialect was registered under the name of one that holds an id.
RegisterTwiceReached ==
    /\ call.op = "register"
    /\ call.present
    /\ dialects[call.name].id # call.id
    /\ NumIds(dialects[call.name]) > 0

\* n is the identifier the character stream `input` starts with.
IsIdentifierOf(n, input) ==
    /\ n # <<>>
    /\ Len(n) <= Len(input)
    /\ SubSeq(input, 1, Len(n)) = n
    /\ \A i \in DOMAIN n : n[i] \in IdChars
    /\ (Len(input) > Len(n) => input[Len(n) + 1] \notin IdChars)

\* The prefixes of a character stream.
Prefixes(input) == {SubSeq(input, 1, k) : k \in 0..Len(input)}

\* The stream of the last call, when it was a parse.
ParsedInput == IF call.op = "parse" THEN call.input ELSE <<>>

\* C3: parsing a DialectName whose identifier is no key of Context.dialects
\* yields an error of kind InvalidInput with the message "Unregistered dialect
\* {name}" at the identifier's start position, without aborting and without
\* returning a name.
UnregisteredDialectIsInvalidInput ==
    \A n \in Prefixes(ParsedInput) :
        call.op = "parse" /\ IsIdentifierOf(n, call.input) /\ n \notin DOMAIN dialects =>
            /\ ~call.res.ok
            /\ call.res.kind = "InvalidInput"
            /\ call.res.msg = <<"Unregistered dialect ", n>>
            /\ call.res.col = call.col
            /\ ~aborted

\* C4: a parse of the dialect name N succeeds, returning N, exactly when a
\* Dialect named N was registered before it; and every name a parse has once
\* returned is one a parse on the Context as it is now returns again.
ParseSucceedsIffRegistered ==
    /\ \A n \in Prefixes(ParsedInput) :
            call.op = "parse" /\ IsIdentifierOf(n, call.input) =>
                /\ call.res.ok <=> n \in RegisteredNames
                /\ call.res.ok => call.res.val = n
    /\ \A n \in okNames, col \in StartCols :
            LET again == DialectNameParse(dialects, n, col)
            IN  again.ok /\ again.val = n

\* A parse away from column 1 returned the longer name, after the shorter one
\* was registered first and a parse had returned it.
ParseRegisteredReached ==
    /\ call.op = "parse"
    /\ call.res.ok
    /\ call.res.val = <<"a", "a">>
    /\ call.col # 1
    /\ <<"a">> \in okNames
    /\ regLog[1].name = <<"a">>

\* C5: every id in a Dialect's ops, types and attributes carries the Dialect's
\* own name; an add of an id of another dialect aborts the process, returns
\* nothing (no recoverable error either) and leaves the lists as they were.
AddedIdsCarryDialectName ==
    /\ \A d \in Alive : \A id \in IdsOf(d) : id.dialect = d.name
    /\ call.op = "add" /\ call.id.dialect # call.self.name =>
            /\ aborted
            /\ call.returned = "nothing"
            /\ call.returned \notin ErrorKinds
            /\ call.after = call.self
    /\ call.op = "add" /\ call.id.dialect = call.self.name =>
            /\ ~aborted
            /\ call.id \in IdsOf(call.after)
    /\ aborted => call.op = "add" /\ call.id.dialect # call.self.name

\* An id of another dialect was added to a registered Dialect.
AddMismatchReached ==
    /\ call.op = "add"
    /\ call.id.dialect # call.self.name
    /\ call.self.name \in DOMAIN dialects
    /\ dialects[call.self.name].id = call.self.id

----------------------------------------------------------------------------
(* Type interning in the Context. *)

Signednesses == {"Signed", "Unsigned", "Signless"}

Widths == {32, 64}

\* What a type-construction call is made with: a constructor and its parameters.
TypeKeys ==
    {[ctor |-> "integer", params |-> <<w, sg>>] : w \in Widths, sg \in Signednesses}
        \cup {[ctor |-> "unit", params |-> <<>>]}

\* An interning that allocates on every call.
InternAlways(table, key) ==
    [table |-> Append(table, key), handle |-> Len(table) + 1, fresh |-> TRUE]

\* intern_type(constructor, params): when an equal key is in the table, the
\* handle it has; otherwise the key is stored and its new handle returned.
InternType(table, key) ==
    IF \E i \in DOMAIN table : table[i] = key
    THEN [table |-> table,
          handle |-> CHOOSE i \in DOMAIN table : table[i] = key,
          fresh |-> FALSE]
    ELSE [table |-> Append(table, key), handle |-> Len(table) + 1, fresh |-> TRUE]

InitIntern ==
    /\ RegistryIdle
    /\ InternIdle
    /\ StringIdle
    /\ AttrIdle
    /\ RestIdle

\* IntegerType::get(ctx, width, signedness), or another type's get.
TypeGet(key) ==
    LET r == InternType(typeTable, key)
    IN  /\ typeTable' = r.table
        /\ handed' = handed \cup {[key |-> key, handle |-> r.handle]}
        /\ lastGet' = [op |-> "get", key |-> key, handle |-> r.handle, fresh |-> r.fresh]
        /\ UNCHANGED <<registryVars, stringVars, attrVars, restVars>>

NextIntern == \E key \in TypeKeys : TypeGet(key)

SpecIntern == InitIntern /\ [][NextIntern]_vars

\* C1: two construction calls with equal (constructor, params) return the same
\* handle, and the intern table holds no key twice.
InternedHandlesAreCanonical ==
    /\ \A i, j \in DOMAIN typeTable : typeTable[i] = typeTable[j] => i = j
    /\ \A p, q \in handed : p.key = q.key => p.handle = q.handle
    /\ \A p \in handed : p.handle \in DOMAIN typeTable /\ typeTable[p.handle] = p.key

\* IntegerType::get(ctx, 64, Signed) was called again after other types were made.
InternAgainReached ==
    /\ lastGet.op = "get"
    /\ ~lastGet.fresh
    /\ lastGet.key = [ctor |-> "integer", params |-> <<64, "Signed">>]
    /\ Len(typeTable) > lastGet.handle

----------------------------------------------------------------------------
(* StringAttr (src/src/builtin/attributes.rs): parser and printer. *)

\* The backslash and the double quote.
BS == "\\"

DQ == "\""

\* Length of the generated string literals.
MaxLitLen == 5

\* "k" is both an ordinary character and one that no escape may name.
StrChars == {"k", BS, DQ}

\* The literals of test_string_attributes: "hello", "hello \"world\"" and
\* "hello \k ".
LitHello == <<DQ, "h", "e", "l", "l", "o", DQ>>

LitHelloWorld ==
    <<DQ, "h", "e", "l", "l", "o", " ", BS, DQ, "w", "o", "r", "l", "d", BS, DQ, DQ>>

LitBadEscape == <<DQ, "h", "e", "l", "l", "o", " ", BS, "k", " ", DQ>>

StrInputs ==
    (SeqsUpTo(StrChars, MaxLitLen) \ {<<>>}) \cup {LitHello, LitHelloWorld, LitBadEscape}

\* The column of the literal's opening quote: 1 when the literal starts the
\* input, 16 after the 15 characters of `builtin.string `.
StrStartCols == {1, 16}

\* Column of the i-th character of a stream that starts at column col.
ColOf(col, i) == col + i - 1

\* input_err!(loc, "Unexpected escaped character \\{}", c): an Error of kind
\* InvalidInput, with a StringError cause, at loc.
InputErr(loc, msg) ==
    [ok |-> FALSE, variant |-> "Error", kind |-> "InvalidInput", msg |-> msg, col |-> loc]

\* A failure of one of combine's own parsers, at the column it happened.
Unexpected(loc, what) ==
    [ok |-> FALSE, variant |-> "Unexpected", kind |-> NoKind, msg |-> <<what>>, col |-> loc]

\* A location taken once the backslash is consumed.
LocAfterBackslash(col, i) == ColOf(col, i) + 1

\* let loc = parsable_state.loc(): the position of the stream when the
\* escaped_char parser starts at the i-th character, before it reads anything.
EscapeLoc(col, i) == ColOf(col, i)

\* An escape match that takes every character for itself.
EscapeMatchAny(c, loc) == [ok |-> TRUE, val |-> c]

\* match c { '\\' => Ok('\\'), '\"' => Ok('\"'), _ => input_err!(loc, ...) }.
EscapeMatch(c, loc) ==
    IF c = BS THEN [ok |-> TRUE, val |-> BS]
    ELSE IF c = DQ THEN [ok |-> TRUE, val |-> DQ]
    ELSE InputErr(loc, <<"Unexpected escaped character \\", c>>)

\* escaped_char: token('\\').with(any()).then(match). status is "ok" (with the
\* character and the index after it), "peek" (failed, nothing consumed) or
\* "commit" (failed after consuming: no alternative is tried).
EscapedChar(input, i, col) ==
    LET loc == EscapeLoc(col, i)
    IN  IF i > Len(input) \/ input[i] # BS
        THEN [status |-> "peek"]
        ELSE IF i + 1 > Len(input)
        THEN [status |-> "commit", err |-> Unexpected(ColOf(col, i + 1), "end of input")]
        ELSE LET m == EscapeMatch(input[i + 1], loc)
             IN  IF m.ok
                 THEN [status |-> "ok", val |-> m.val, next |-> i + 2]
                 ELSE [status |-> "commit", err |-> m]

\* none_of("\"".chars()): any one character but the double quote.
NoneOfQuote(input, i) ==
    IF i <= Len(input) /\ input[i] # DQ
    THEN [status |-> "ok", val |-> input[i], next |-> i + 1]
    ELSE [status |-> "peek"]

\* An alternative that tries none_of after any failure of escaped_char.
StringCharNoCommit(input, i, col) ==
    LET e == EscapedChar(input, i, col)
    IN  IF e.status = "ok" THEN e ELSE NoneOfQuote(input, i)

\* escaped_char.or(none_of(..)): the second is tried only if the first failed
\* without consuming.
StringChar(input, i, col) ==
    LET e == EscapedChar(input, i, col)
    IN  IF e.status = "peek" THEN NoneOfQuote(input, i) ELSE e

RECURSIVE ManyStringChars(_, _, _, _)
\* many(..): collects characters until the element parser fails without
\* consuming; a failure after consuming fails the whole.
ManyStringChars(input, i, col, acc) ==
    LET r == StringChar(input, i, col)
    IN  IF r.status = "ok" THEN ManyStringChars(input, r.next, col, Append(acc, r.val))
        ELSE IF r.status = "peek" THEN [status |-> "ok", val |-> acc, next |-> i]
        ELSE r

\* StringAttr::parse: between(token('"'), token('"'), many(..)).map(StringAttr).
StringAttrParse(input, col) ==
    IF input = <<>> THEN Unexpected(col, "end of input")
    ELSE IF input[1] # DQ THEN Unexpected(col, input[1])
    ELSE LET body == ManyStringChars(input, 2, col, <<>>)
         IN  IF body.status # "ok" THEN body.err
             ELSE IF body.next > Len(input)
             THEN Unexpected(ColOf(col, body.next), "end of input")
             ELSE [ok |-> TRUE, val |-> body.val, consumed |-> body.next]

RECURSIVE EscapeChars(_)
\* The characters of a payload, a backslash put before each backslash and quote.
EscapeChars(payload) ==
    IF payload = <<>> THEN <<>>
    ELSE LET c == Head(payload)
         IN  (IF c \in {BS, DQ} THEN <<BS, c>> ELSE <<c>>) \o EscapeChars(Tail(payload))

\* irfmt::printers::quoted: the payload between double quotes, the mirror of
\* the parser's two escapes.
Quoted(payload) == <<DQ>> \o EscapeChars(payload) \o <<DQ>>

\* impl Printable for StringAttr.
StringAttrPrint(payload) == Quoted(payload)

InitString ==
    /\ RegistryIdle
    /\ InternIdle
    /\ strIn \in [op : {"input"}, input : StrInputs, col : StrStartCols]
    /\ strOut = NoStr
    /\ strText = <<>>
    /\ AttrIdle
    /\ RestIdle

\* StringAttr::parse on the stream.
StrParse ==
    /\ strOut.op = "none"
    /\ strOut' = [op |-> "parsed", res |-> StringAttrParse(strIn.input, strIn.col)]
    /\ UNCHANGED <<strIn, strText, registryVars, internVars, attrVars, restVars>>

\* Printing the attribute the parse returned.
StrPrint ==
    /\ strOut.op = "parsed"
    /\ strOut.res.ok
    /\ strOut' = [strOut EXCEPT !.op = "printed"]
    /\ strText' = StringAttrPrint(strOut.res.val)
    /\ UNCHANGED <<strIn, registryVars, internVars, attrVars, restVars>>

NextString == StrParse \/ StrPrint

SpecString == InitString /\ [][NextString]_vars

----------------------------------------------------------------------------
(* Properties of StringAttr::parse and its printer. *)

\* The parse has run on the stream.
StrParsed == strOut.op \in {"parsed", "printed"}

RECURSIVE IsEscaped(_, _)
\* The i-th character of s follows a backslash that is not itself escaped.
IsEscaped(s, i) == i > 1 /\ s[i - 1] = BS /\ ~IsEscaped(s, i - 1)

\* The i-th character of s is a backslash that starts an escape.
StartsEscape(s, i) == s[i] = BS /\ ~IsEscaped(s, i)

\* The unescaped double quotes after the opening one.
ClosingQuotes(s) == {i \in 2..Len(s) : s[i] = DQ /\ ~IsEscaped(s, i)}

\* The escaped characters that are neither a backslash nor a double quote.
BadEscapes(s) == {i \in 2..Len(s) : IsEscaped(s, i) /\ s[i] \notin {BS, DQ}}

Min(S) == CHOOSE x \in S : \A y \in S : x <= y

RECURSIVE Decoded(_, _, _)
\* The characters i..n of s, without the backslashes that start an escape.
Decoded(s, i, n) ==
    IF i > n THEN <<>>
    ELSE (IF StartsEscape(s, i) THEN <<>> ELSE <<s[i]>>) \o Decoded(s, i + 1, n)

\* C7: re-printing the attribute parsed from a literal that StringAttr::parse
\* accepts writes the literal's own text; the literal "hello \"world\"" parses
\* to the payload hello "world".
StringReprintsLiteral ==
    /\ strOut.op = "printed" =>
            strText = SubSeq(strIn.input, 1, strOut.res.consumed)
    /\ StrParsed /\ strIn.input = LitHelloWorld =>
            /\ strOut.res.ok
            /\ strOut.res.val =
                   <<"h", "e", "l", "l", "o", " ", DQ, "w", "o", "r", "l", "d", DQ>>

\* "hello \"world\"" was parsed and printed.
StringReprintReached ==
    /\ strOut.op = "printed"
    /\ strIn.input = LitHelloWorld
    /\ strText = LitHelloWorld

\* C8: of an escape \\ or \" only the escaped character enters the payload, all
\* other characters enter it as they are, and the parse ends at the first
\* unescaped double quote; a backslash before any other character c fails the
\* parse with an InvalidInput error "Unexpected escaped character \c".
StringEscapesAreTwo ==
    StrParsed /\ strIn.input[1] = DQ =>
        LET s == strIn.input
            r == strOut.res
            close == ClosingQuotes(s)
            bad == BadEscapes(s)
        IN  /\ bad # {} /\ (close = {} \/ Min(bad) < Min(close)) =>
                    /\ ~r.ok
                    /\ r.kind = "InvalidInput"
                    /\ r.msg = <<"Unexpected escaped character \\", s[Min(bad)]>>
            /\ close # {} /\ (bad = {} \/ Min(close) < Min(bad)) =>
                    /\ r.ok
                    /\ r.consumed = Min(close)
                    /\ r.val = Decoded(s, 2, Min(close) - 1)
            /\ r.ok => close # {}

\* A literal with an escape was parsed from a stream that goes on after it.
StringEscapeReached ==
    /\ strOut.op = "parsed"
    /\ strOut.res.ok
    /\ strOut.res.consumed < Len(strIn.input)
    /\ strOut.res.val \in {<<BS>>, <<DQ>>}

\* Index of the k of "hello \k ".
BadEscapeIndex == CHOOSE i \in DOMAIN LitBadEscape : LitBadEscape[i] = "k"

\* C9, as the spec has it: parsing "hello \k " fails at the column of the k.
BadEscapeFailsAtEscapedChar ==
    StrParsed /\ strIn.input = LitBadEscape =>
        /\ ~strOut.res.ok
        /\ strOut.res.msg = <<"Unexpected escaped character \\", "k">>
        /\ strOut.res.col = ColOf(strIn.col, BadEscapeIndex)

\* C9, amended: parsing "hello \k " fails with the message "Unexpected escaped
\* character \k" at the column of the backslash before the k.
BadEscapeFailsAtBackslash ==
    StrParsed /\ strIn.input = LitBadEscape =>
        /\ ~strOut.res.ok
        /\ strOut.res.msg = <<"Unexpected escaped character \\", "k">>
        /\ LitBadEscape[BadEscapeIndex - 1] = BS
        /\ strOut.res.col = ColOf(strIn.col, BadEscapeIndex - 1)

\* "hello \k " was parsed after `builtin.string `.
BadEscapeParsedReached ==
    /\ strOut.op = "parsed"
    /\ strIn.input = LitBadEscape
    /\ strIn.col = 16
    /\ ~strOut.res.ok

\* C10: the location of an unsupported-escape error is the stream position
\* before the backslash of the escape is consumed, the column of that
\* backslash: column 23 for builtin.string "hello \k ".
EscapeErrorIsAtBackslash ==
    /\ StrParsed /\ ~strOut.res.ok /\ strOut.res.variant = "Error" =>
            LET s == strIn.input
                at == Min(BadEscapes(s)) - 1
            IN  /\ BadEscapes(s) # {}
                /\ StartsEscape(s, at)
                /\ strOut.res.col = ColOf(strIn.col, at)
    /\ StrParsed /\ strIn.input = LitBadEscape /\ strIn.col = 16 =>
            ~strOut.res.ok /\ strOut.res.col = 23

\* An unsupported escape that follows a supported one was rejected.
EscapeErrorReached ==
    /\ strOut.op = "parsed"
    /\ ~strOut.res.ok
    /\ strOut.res.variant = "Error"
    /\ strIn.input = <<DQ, BS, BS, BS, "k">>

----------------------------------------------------------------------------
(* The builtin attributes (src/src/builtin/attributes.rs): printing an       *)
(* attribute and parsing its printed form. A printed form is a sequence of   *)
(* characters in which the dotted name of a kind ("builtin.string") stands   *)
(* as one element.                                                           *)

\* Elements of a VecAttr.
MaxVecLen == 2

\* The attribute kinds that builtin::attributes::register registers.
RegisteredKinds == {"identifier", "string", "integer", "dict", "vec", "unit", "type"}

\* The printed name of a kind: the argument of its #[def_attribute(..)].
KindId(kind) ==
    CASE kind = "identifier" -> "builtin.identifier"
      [] kind = "string" -> "builtin.string"
      [] kind = "integer" -> "builtin.integer"
      [] kind = "dict" -> "builtin.dict"
      [] kind = "vec" -> "builtin.vec"
      [] kind = "unit" -> "builtin.unit"
      [] kind = "type" -> "builtin.type"

DigitChars == <<"0", "1", "2", "3", "4", "5", "6", "7", "8", "9">>

IsDigit(c) == \E d \in DOMAIN DigitChars : DigitChars[d] = c

DigitVal(c) == (CHOOSE d \in DOMAIN DigitChars : DigitChars[d] = c) - 1

RECURSIVE ToDecimal(_)
\* The decimal digits of a natural number.
ToDecimal(n) ==
    IF n < 10 THEN <<DigitChars[n + 1]>>
    ELSE Append(ToDecimal(n \div 10), DigitChars[(n % 10) + 1])

RECURSIVE FromDecimal(_)
\* The natural number a sequence of decimal digits writes.
FromDecimal(ds) ==
    IF ds = <<>> THEN 0
    ELSE FromDecimal(SubSeq(ds, 1, Len(ds) - 1)) * 10 + DigitVal(ds[Len(ds)])

RECURSIVE Pow2(_)
Pow2(w) == IF w = 0 THEN 1 ELSE 2 * Pow2(w - 1)

\* The bit widths of the integer attributes of the model (their values are
\* bit patterns below 2^width).
AttrWidths == {4, 8}

IntTypeKeys ==
    {[ctor |-> "integer", params |-> <<w, sg>>] : w \in AttrWidths, sg \in Signednesses}

WidthOf(ty) == ty.params[1]

SignednessOf(ty) == ty.params[2]

\* APInt::to_string_decimal(signed): the bit pattern read as a two's
\* complement number when signed, as a natural number otherwise.
ToStringDecimal(val, signed) ==
    IF signed /\ val.bits >= Pow2(val.bw - 1)
    THEN <<"-">> \o ToDecimal(Pow2(val.bw) - val.bits)
    ELSE ToDecimal(val.bits)

\* APInt::from_str(digits, bw, 10): an optional sign and decimal digits; an
\* error when the text is no number or the number does not fit bw bits.
APIntFromStr(digits, bw) ==
    LET signed == digits # <<>> /\ digits[1] \in {"-", "+"}
        body == IF signed THEN Tail(digits) ELSE digits
        v == FromDecimal(body)
    IN  IF body = <<>> \/ \E i \in DOMAIN body : ~IsDigit(body[i])
        THEN [ok |-> FALSE]
        ELSE IF ~signed
        THEN IF v < Pow2(bw) THEN [ok |-> TRUE, val |-> [bw |-> bw, bits |-> v]]
             ELSE [ok |-> FALSE]
        ELSE IF digits[1] = "+"
        THEN IF v < Pow2(bw - 1) THEN [ok |-> TRUE, val |-> [bw |-> bw, bits |-> v]]
             ELSE [ok |-> FALSE]
        ELSE IF v <= Pow2(bw - 1)
        THEN [ok |-> TRUE, val |-> [bw |-> bw, bits |-> (Pow2(bw) - v) % Pow2(bw)]]
        ELSE [ok |-> FALSE]

\* IntegerType's printed form: si, ui or i, then the width.
IntegerTypePrint(ty) ==
    (CASE SignednessOf(ty) = "Signed" -> <<"s", "i">>
       [] SignednessOf(ty) = "Unsigned" -> <<"u", "i">>
       [] SignednessOf(ty) = "Signless" -> <<"i">>) \o ToDecimal(WidthOf(ty))

\* A parse result: st is "ok" (with the value and the index after it), "err"
\* (a parse error at a column) or "panic".
Ok(val, next) == [st |-> "ok", val |-> val, next |-> next]

Err(kind, col) == [st |-> "err", kind |-> kind, col |-> col]

Panic == [st |-> "panic"]

\* Index of the first element of text at or after i that is not a space.
RECURSIVE SkipSpaces(_, _)
SkipSpaces(text, i) ==
    IF i <= Len(text) /\ text[i] = " " THEN SkipSpaces(text, i + 1) ELSE i

\* Index after the longest run, from i, of elements of text that are in S.
RECURSIVE SkipWhile(_, _, _)
SkipWhile(text, i, S) ==
    IF i <= Len(text) /\ text[i] \in S THEN SkipWhile(text, i + 1, S) ELSE i

At(text, i) == IF i <= Len(text) THEN text[i] ELSE "end of input"

\* IntegerType::parser: si, ui or i, then the width in decimal.
IntegerTypeParse(text, i) ==
    LET sg == IF At(text, i) = "s" /\ At(text, i + 1) = "i" THEN "Signed"
              ELSE IF At(text, i) = "u" /\ At(text, i + 1) = "i" THEN "Unsigned"
              ELSE IF At(text, i) = "i" THEN "Signless"
              ELSE "none"
        j == IF sg = "Signless" THEN i + 1 ELSE i + 2
        k == SkipWhile(text, j, {DigitChars[d] : d \in DOMAIN DigitChars})
    IN  IF sg = "none" THEN Err(NoKind, i)
        ELSE IF k = j THEN Err(NoKind, j)
        ELSE Ok([ctor |-> "integer", params |-> <<FromDecimal(SubSeq(text, j, k - 1)), sg>>], k)

\* impl Printable for IntegerAttr: "<{val}: {ty}>", the value signed when the
\* type is.
IntegerAttrPrint(a) ==
    <<"<">> \o ToStringDecimal(a.val, SignednessOf(a.ty) = "Signed")
        \o <<":", " ">> \o IntegerTypePrint(a.ty) \o <<">">>

\* A parser of IntegerAttr that builds every value with 8 bits.
IntegerAttrParseFixedWidth(text, i) ==
    LET d0 == SkipSpaces(text, i + 1)
        d1 == SkipWhile(text, d0, {DigitChars[d] : d \in DOMAIN DigitChars} \cup {"-", "+"})
        c0 == SkipSpaces(text, d1)
        t0 == SkipSpaces(text, c0 + 1)
        ty == IntegerTypeParse(text, t0)
    IN  IF At(text, i) # "<" THEN Err(NoKind, i)
        ELSE IF d1 = d0 THEN Err(NoKind, d0)
        ELSE IF At(text, c0) # ":" THEN Err(NoKind, c0)
        ELSE IF ty.st # "ok" THEN ty
        ELSE IF At(text, ty.next) # ">" THEN Err(NoKind, ty.next)
        ELSE LET n == APIntFromStr(SubSeq(text, d0, d1 - 1), 8)
             IN  IF n.ok
                 THEN Ok([kind |-> "integer", ty |-> ty.val, val |-> n.val], ty.next + 1)
                 ELSE Err("InvalidInput", ty.next + 1)

\* A parser of IntegerAttr that reports a failure of the type part at the
\* opening '<' of the attribute.
IntegerAttrParseOuterLoc(text, i) ==
    LET d0 == SkipSpaces(text, i + 1)
        d1 == SkipWhile(text, d0, {DigitChars[d] : d \in DOMAIN DigitChars} \cup {"-", "+"})
        c0 == SkipSpaces(text, d1)
        t0 == SkipSpaces(text, c0 + 1)
        ty == IntegerTypeParse(text, t0)
    IN  IF At(text, i) # "<" THEN Err(NoKind, i)
        ELSE IF d1 = d0 THEN Err(NoKind, d0)
        ELSE IF At(text, c0) # ":" THEN Err(NoKind, c0)
        ELSE IF ty.st # "ok" THEN Err(NoKind, i)
        ELSE IF At(text, ty.next) # ">" THEN Err(NoKind, ty.next)
        ELSE LET n == APIntFromStr(SubSeq(text, d0, d1 - 1), WidthOf(ty.val))
             IN  IF n.ok
                 THEN Ok([kind |-> "integer", ty |-> ty.val, val |-> n.val], ty.next + 1)
                 ELSE Err("InvalidInput", ty.next + 1)

\* impl Parsable for IntegerAttr: between('<', '>', spaces digits spaced(':')
\* IntegerType), then APInt::from_str(digits, ty.width, 10); its error becomes
\* an input_err! at the position after the '>'.
IntegerAttrParse(text, i) ==
    LET d0 == SkipSpaces(text, i + 1)
        d1 == SkipWhile(text, d0, {DigitChars[d] : d \in DOMAIN DigitChars} \cup {"-", "+"})
        c0 == SkipSpaces(text, d1)
        t0 == SkipSpaces(text, c0 + 1)
        ty == IntegerTypeParse(text, t0)
    IN  IF At(text, i) # "<" THEN Err(NoKind, i)
        ELSE IF d1 = d0 THEN Err(NoKind, d0)
        ELSE IF At(text, c0) # ":" THEN Err(NoKind, c0)
        ELSE IF ty.st # "ok" THEN ty
        ELSE IF At(text, ty.next) # ">" THEN Err(NoKind, ty.next)
        ELSE LET n == APIntFromStr(SubSeq(text, d0, d1 - 1), WidthOf(ty.val))
             IN  IF n.ok
                 THEN Ok([kind |-> "integer", ty |-> ty.val, val |-> n.val], ty.next + 1)
                 ELSE Err("InvalidInput", ty.next + 1)

RECURSIVE AttrPrint(_), PrintElems(_), AttrParse(_, _), ParseElems(_, _, _)

\* The elements of a VecAttr, with CharSpace(`,`) between them.
PrintElems(elems) ==
    IF elems = <<>> THEN <<>>
    ELSE IF Len(elems) = 1 THEN AttrPrint(elems[1])
    ELSE AttrPrint(elems[1]) \o <<",", " ">> \o PrintElems(Tail(elems))

\* The payload an attribute prints after its kind's name.
PayloadPrint(a) ==
    CASE a.kind = "unit" -> <<>>
      [] a.kind = "identifier" -> a.val
      [] a.kind = "string" -> StringAttrPrint(a.val)
      [] a.kind = "integer" -> IntegerAttrPrint(a)
      [] a.kind = "type" -> <<"builtin.integer", " ">> \o IntegerTypePrint(a.ty)
      [] a.kind = "vec" -> <<"[">> \o PrintElems(a.elems) \o <<"]">>
      [] a.kind = "dict" ->
            <<"{">>
                \o (IF a.entries = <<>> THEN <<>>
                    ELSE a.entries[1].key \o <<":", " ">> \o AttrPrint(a.entries[1].val))
                \o <<"}">>

\* An AttrObj prints the name of its kind, a space and its payload.
AttrPrint(a) == <<KindId(a.kind), " ">> \o PayloadPrint(a)

\* vec($0, CharSpace(`,`)) up to the closing bracket; acc holds the elements
\* parsed so far.
ParseElems(text, i, acc) ==
    IF At(text, i) = "]" /\ acc = <<>> THEN Ok([kind |-> "vec", elems |-> acc], i + 1)
    ELSE LET e == AttrParse(text, i)
         IN  IF e.st # "ok" THEN e
             ELSE IF At(text, e.next) = "]"
             THEN Ok([kind |-> "vec", elems |-> Append(acc, e.val)], e.next + 1)
             ELSE IF At(text, e.next) = ","
             THEN ParseElems(text, SkipSpaces(text, e.next + 1), Append(acc, e.val))
             ELSE Err(NoKind, e.next)

\* impl Parsable for DictAttr: todo!().
DictAttrParse(text, i) == Panic

\* The parser a kind registered (its parser_fn), on the text from index i.
PayloadParse(kind, text, i) ==
    CASE kind = "unit" -> Ok([kind |-> "unit"], i)
      [] kind = "identifier" ->
            LET id == ParseId(SubSeq(text, i, Len(text)))
            IN  IF id.ok THEN Ok([kind |-> "identifier", val |-> id.val], i + id.consumed)
                ELSE Err(NoKind, i)
      [] kind = "string" ->
            LET r == StringAttrParse(SubSeq(text, i, Len(text)), i)
            IN  IF r.ok THEN Ok([kind |-> "string", val |-> r.val], i + r.consumed)
                ELSE Err(r.kind, r.col)
      [] kind = "integer" -> IntegerAttrParse(text, i)
      [] kind = "type" ->
            IF At(text, i) # "builtin.integer" THEN Err(NoKind, i)
            ELSE LET ty == IntegerTypeParse(text, SkipSpaces(text, i + 1))
                 IN  IF ty.st = "ok" THEN Ok([kind |-> "type", ty |-> ty.val], ty.next)
                     ELSE ty
      [] kind = "vec" ->
            IF At(text, i) # "[" THEN Err(NoKind, i) ELSE ParseElems(text, i + 1, <<>>)
      [] kind = "dict" -> DictAttrParse(text, i)

\* attr_parser: the name of a registered kind, then that kind's parser.
AttrParse(text, i) ==
    IF \E kind \in RegisteredKinds : KindId(kind) = At(text, i)
    THEN LET kind == CHOOSE k \in RegisteredKinds : KindId(k) = At(text, i)
         IN  PayloadParse(kind, text, SkipSpaces(text, i + 1))
    ELSE Err(NoKind, i)

\* The attributes the model builds. A DictAttr holds the entries of its
\* AttributeDict as a sequence of (key, value), no key twice.
UnitAttr == [kind |-> "unit"]

IdentifierAttrs == {[kind |-> "identifier", val |-> n] : n \in DialectNames}

StringAttrs == {[kind |-> "string", val |-> v] : v \in {<<>>, <<"k">>, <<BS, DQ>>}}

IntegerAttrs ==
    {[kind |-> "integer", ty |-> ty, val |-> [bw |-> WidthOf(ty), bits |-> b]] :
        ty \in {t \in IntTypeKeys : WidthOf(t) = 4}, b \in 0..15}
    \cup {[kind |-> "integer", ty |-> ty, val |-> [bw |-> WidthOf(ty), bits |-> b]] :
        ty \in {t \in IntTypeKeys : WidthOf(t) = 8}, b \in {0, 15, 127, 128, 255}}

TypeAttrs == {[kind |-> "type", ty |-> ty] : ty \in IntTypeKeys}

EmptyDict == [kind |-> "dict", entries |-> <<>>]

VecElems ==
    {UnitAttr, EmptyDict, [kind |-> "string", val |-> <<"k">>],
     [kind |-> "integer", val |-> [bw |-> 4, bits |-> 15],
      ty |-> [ctor |-> "integer", params |-> <<4, "Signed">>]]}

VecAttrs == {[kind |-> "vec", elems |-> e] : e \in SeqsUpTo(VecElems, MaxVecLen)}

DictAttrs ==
    {EmptyDict}
        \cup {[kind |-> "dict", entries |-> <<[key |-> <<"a">>, val |-> v]>>] : v \in VecElems}

AttrValues ==
    {UnitAttr} \cup IdentifierAttrs \cup StringAttrs \cup IntegerAttrs \cup TypeAttrs
        \cup VecAttrs \cup DictAttrs

InitAttr ==
    /\ RegistryIdle
    /\ InternIdle
    /\ StringIdle
    /\ attrIn \in AttrValues
    /\ attrText = <<>>
    /\ attrOut = NoAttr
    /\ attrText2 = <<>>
    /\ RestIdle

\* attr.disp(ctx).to_string()
AttrPrintStep ==
    /\ attrOut.op = "none"
    /\ attrText' = AttrPrint(attrIn)
    /\ attrOut' = [op |-> "printed"]
    /\ UNCHANGED <<attrIn, attrText2, registryVars, internVars, stringVars, restVars>>

\* attr_parser().parse(state_stream) on the printed form.
AttrParseStep ==
    /\ attrOut.op = "printed"
    /\ attrOut' = [op |-> "parsed", res |-> AttrParse(attrText, 1)]
    /\ UNCHANGED <<attrIn, attrText, attrText2, registryVars, internVars, stringVars, restVars>>

\* Printing the attribute the parser returned.
AttrReprintStep ==
    /\ attrOut.op = "parsed"
    /\ attrOut.res.st = "ok"
    /\ attrText2' = AttrPrint(attrOut.res.val)
    /\ attrOut' = [attrOut EXCEPT !.op = "reprinted"]
    /\ UNCHANGED <<attrIn, attrText, registryVars, internVars, stringVars, restVars>>

NextAttr == AttrPrintStep \/ AttrParseStep \/ AttrReprintStep

SpecAttr == InitAttr /\ [][NextAttr]_vars

\* C6: for every kind that builtin::attributes::register registers, parsing
\* the printed form of an attribute gives an equal attribute (the parser does
\* not fail or panic, and reads the whole form), and printing that attribute
\* gives the same text.
PrintedFormRoundTrips ==
    /\ attrIn.kind \in RegisteredKinds
    /\ attrOut.op \in {"parsed", "reprinted"} =>
            /\ attrOut.res.st = "ok"
            /\ attrOut.res.val = attrIn
            /\ attrOut.res.next = Len(attrText) + 1
    /\ attrOut.op = "reprinted" => attrText2 = attrText

----------------------------------------------------------------------------
(* Equality of attribute objects (src/src/builtin/attributes.rs): each kind  *)
(* derives PartialEq on its payload, and an AttrObj compares by downcasting  *)
(* both sides to one concrete kind.                                          *)

\* AttributeDict::get: the value under a key.
MapGet(m, key) ==
    IF \E i \in DOMAIN m : m[i].key = key
    THEN [some |-> TRUE, val |-> m[CHOOSE i \in DOMAIN m : m[i].key = key].val]
    ELSE [some |-> FALSE]

\* AttributeDict::insert: the value replaces the one the key has, if any.
MapInsert(m, key, val) ==
    IF \E i \in DOMAIN m : m[i].key = key
    THEN [i \in DOMAIN m |-> IF m[i].key = key THEN [key |-> key, val |-> val] ELSE m[i]]
    ELSE Append(m, [key |-> key, val |-> val])

RECURSIVE MapRemove(_, _)
\* AttributeDict::remove: the map without the key.
MapRemove(m, key) ==
    IF m = <<>> THEN <<>>
    ELSE IF Head(m).key = key THEN MapRemove(Tail(m), key)
    ELSE <<Head(m)>> \o MapRemove(Tail(m), key)

RECURSIVE AttrObjEq(_, _), PayloadEq(_, _), ElemsEq(_, _), MapEq(_, _)

\* Vec<AttrObj> equality: the same length and equal elements, place by place.
ElemsEq(xs, ys) ==
    /\ Len(xs) = Len(ys)
    /\ \A i \in DOMAIN xs : AttrObjEq(xs[i], ys[i])

\* AttributeDict equality, that of a map: as many entries, and every key of
\* the one has an equal value in the other.
MapEq(a, b) ==
    /\ Len(a) = Len(b)
    /\ \A i \in DOMAIN a :
            LET g == MapGet(b, a[i].key)
            IN  g.some /\ AttrObjEq(a[i].val, g.val)

\* The #[derive(PartialEq)] of each kind, on two attributes of that kind.
PayloadEq(a, b) ==
    CASE a.kind = "unit" -> TRUE
      [] a.kind = "identifier" -> a.val = b.val
      [] a.kind = "string" -> a.val = b.val
      [] a.kind = "integer" -> a.ty = b.ty /\ a.val = b.val
      [] a.kind = "float" -> TRUE
      [] a.kind = "type" -> a.ty = b.ty
      [] a.kind = "vec" -> ElemsEq(a.elems, b.elems)
      [] a.kind = "dict" -> MapEq(a.entries, b.entries)

\* An equality that also holds between a StringAttr and an IdentifierAttr of
\* one text.
AttrObjEqAnyKind(a, b) ==
    IF a.kind = b.kind THEN PayloadEq(a, b)
    ELSE {a.kind, b.kind} = {"string", "identifier"} /\ a.val = b.val

\* AttrObj equality: both sides are of one concrete kind, and that kind's
\* equality holds.
AttrObjEq(a, b) ==
    IF a.kind = b.kind THEN PayloadEq(a, b) ELSE FALSE

----------------------------------------------------------------------------
(* DictAttr (src/src/builtin/attributes.rs). *)

\* Length of the vector handed to DictAttr::new.
MaxDictVec == 2

\* Identifiers "hello", "world" and "hello_world" of test_dictionary_attributes.
HelloId == <<"h", "e", "l", "l", "o">>

WorldId == <<"w", "o", "r", "l", "d">>

HelloWorldId == HelloId \o <<"_">> \o WorldId

\* StringAttr::new("hello") and StringAttr::new("world").
HelloAttr == [kind |-> "string", val |-> HelloId]

WorldAttr == [kind |-> "string", val |-> WorldId]

\* The keys the program inserts, and those it looks up and removes.
DictKeys == {HelloId, WorldId}

DictQueryKeys == DictKeys \cup {HelloWorldId}

DictVals == {HelloAttr, WorldAttr}

DictPairs == [key : DictKeys, val : DictVals]

DictVecs == SeqsUpTo(DictPairs, MaxDictVec)

RECURSIVE DictFill(_, _)
\* for (name, val) in value { dict.0.insert(name, val); }
DictFill(m, value) ==
    IF value = <<>> THEN m
    ELSE DictFill(MapInsert(m, Head(value).key, Head(value).val), Tail(value))

\* DictAttr::new.
DictAttrNew(value) == [kind |-> "dict", entries |-> DictFill(<<>>, value)]

\* An insert that keeps the value a key already has.
DictInsertIfAbsent(d, key, val) ==
    IF MapGet(d.entries, key).some THEN d
    ELSE [d EXCEPT !.entries = MapInsert(@, key, val)]

\* DictAttr::insert.
DictAttrInsert(d, key, val) == [d EXCEPT !.entries = MapInsert(@, key, val)]

\* DictAttr::remove.
DictAttrRemove(d, key) == [d EXCEPT !.entries = MapRemove(@, key)]

\* DictAttr::lookup.
DictAttrLookup(d, key) == MapGet(d.entries, key)

\* An equality that compares the entries in the order they are held.
DictAttrEqOrdered(a, b) == a.entries = b.entries

\* The #[derive(PartialEq)] of DictAttr: the equality of its AttributeDict.
DictAttrEq(a, b) == MapEq(a.entries, b.entries)

NoVal == [some |-> FALSE]

\* The last pair of a vector that has the key, if one has.
LastOf(value, key) ==
    LET at == {i \in DOMAIN value : value[i].key = key}
    IN  IF at = {} THEN NoVal
        ELSE [some |-> TRUE, val |-> value[CHOOSE i \in at : \A j \in at : j <= i].val]

DictSlots == {"A", "B"}

DictOf(slot) == IF slot = "A" THEN dictA ELSE dictB

otherThanDict == <<registryVars, internVars, stringVars, attrVars, errVars, objVars, opVars, vecVars>>

InitDict ==
    /\ RegistryIdle
    /\ InternIdle
    /\ StringIdle
    /\ AttrIdle
    /\ dictA = NoDict
    /\ dictB = NoDict
    /\ dictLast = [s \in DictSlots |-> [k \in DictQueryKeys |-> NoVal]]
    /\ dictCall = NoCall
    /\ ErrIdle
    /\ ObjIdle
    /\ OpIdle
    /\ VecIdle

\* The object of a slot becomes d.
DictSet(slot, d) ==
    /\ dictA' = IF slot = "A" THEN d ELSE dictA
    /\ dictB' = IF slot = "B" THEN d ELSE dictB

\* let dict = DictAttr::new(value);
DictNewStep(slot, value) ==
    /\ DictOf(slot) = NoDict
    /\ DictSet(slot, DictAttrNew(value))
    /\ dictLast' = [dictLast EXCEPT ![slot] = [k \in DictQueryKeys |-> LastOf(value, k)]]
    /\ dictCall' = [op |-> "new", slot |-> slot, value |-> value]
    /\ UNCHANGED otherThanDict

\* dict.insert(&key, val);
DictInsertStep(slot, key, val) ==
    /\ DictOf(slot) # NoDict
    /\ DictSet(slot, DictAttrInsert(DictOf(slot), key, val))
    /\ dictLast' = [dictLast EXCEPT ![slot][key] = [some |-> TRUE, val |-> val]]
    /\ dictCall' = [op |-> "insert", slot |-> slot, key |-> key, val |-> val,
                    before |-> DictOf(slot)]
    /\ UNCHANGED otherThanDict

\* dict.remove(&key);
DictRemoveStep(slot, key) ==
    /\ DictOf(slot) # NoDict
    /\ DictSet(slot, DictAttrRemove(DictOf(slot), key))
    /\ dictLast' = [dictLast EXCEPT ![slot][key] = NoVal]
    /\ dictCall' = [op |-> "remove", slot |-> slot, key |-> key, before |-> DictOf(slot)]
    /\ UNCHANGED otherThanDict

\* dict.lookup(&key)
DictLookupStep(slot, key) ==
    /\ DictOf(slot) # NoDict
    /\ dictCall' = [op |-> "lookup", slot |-> slot, key |-> key,
                    res |-> DictAttrLookup(DictOf(slot), key)]
    /\ UNCHANGED <<dictA, dictB, dictLast, otherThanDict>>

\* dict1 == dict2
DictEqStep ==
    /\ dictA # NoDict
    /\ dictB # NoDict
    /\ dictCall' = [op |-> "eq", res |-> DictAttrEq(dictA, dictB)]
    /\ UNCHANGED <<dictA, dictB, dictLast, otherThanDict>>

NextDict ==
    \/ \E slot \in DictSlots, value \in DictVecs : DictNewStep(slot, value)
    \/ \E slot \in DictSlots, key \in DictKeys, val \in DictVals :
            DictInsertStep(slot, key, val)
    \/ \E slot \in DictSlots, key \in DictQueryKeys : DictRemoveStep(slot, key)
    \/ \E slot \in DictSlots, key \in DictQueryKeys : DictLookupStep(slot, key)
    \/ DictEqStep

SpecDict == InitDict /\ [][NextDict]_vars

----------------------------------------------------------------------------
(* Properties of DictAttr. *)

\* The key/value pairs a DictAttr holds, as a set.
PairsOf(d) == {<<d.entries[i].key, d.entries[i].val>> : i \in DOMAIN d.entries}

KeysOf(d) == {d.entries[i].key : i \in DOMAIN d.entries}

BothBuilt == dictA # NoDict /\ dictB # NoDict

\* C11: two DictAttr are equal exactly when they hold the same key/value
\* pairs, in whatever order these were inserted (so dictionaries with other
\* keys or other values are unequal), and two equal ones are still equal once
\* one key is removed from both.
DictEqualityIgnoresOrder ==
    /\ BothBuilt => (DictAttrEq(dictA, dictB) <=> PairsOf(dictA) = PairsOf(dictB))
    /\ BothBuilt /\ DictAttrEq(dictA, dictB) =>
            \A key \in DictQueryKeys :
                DictAttrEq(DictAttrRemove(dictA, key), DictAttrRemove(dictB, key))
    /\ dictCall.op = "eq" => dictCall.res = (PairsOf(dictA) = PairsOf(dictB))

\* {hello: H, world: W} was compared with {world: W, hello: H}.
DictOrdersComparedReached ==
    /\ dictCall.op = "eq"
    /\ dictCall.res
    /\ dictA.entries = <<[key |-> HelloId, val |-> HelloAttr], [key |-> WorldId, val |-> WorldAttr]>>
    /\ dictB.entries = <<[key |-> WorldId, val |-> WorldAttr], [key |-> HelloId, val |-> HelloAttr]>>

\* The DictAttr objects built so far.
BuiltDicts == {s \in DictSlots : DictOf(s) # NoDict}

\* C12: a DictAttr holds no key twice, and lookup(k) is the value of the last
\* insert of k that no remove(k) followed (none when there is no such insert);
\* an insert on a key the dictionary has replaces its value, a remove of a key
\* it does not have changes nothing, and an insert or remove on k leaves the
\* lookup of every other key as it was.
DictLookupIsLastInsert ==
    /\ \A s \in BuiltDicts :
            LET d == DictOf(s)
            IN  /\ \A i, j \in DOMAIN d.entries : d.entries[i].key = d.entries[j].key => i = j
                /\ \A k \in DictQueryKeys : DictAttrLookup(d, k) = dictLast[s][k]
    /\ dictCall.op = "lookup" => dictCall.res = dictLast[dictCall.slot][dictCall.key]
    /\ dictCall.op = "insert" =>
            /\ DictAttrLookup(DictOf(dictCall.slot), dictCall.key)
                   = [some |-> TRUE, val |-> dictCall.val]
            /\ Len(DictOf(dictCall.slot).entries)
                   = Len(dictCall.before.entries)
                         + (IF dictCall.key \in KeysOf(dictCall.before) THEN 0 ELSE 1)
    /\ dictCall.op = "remove" /\ dictCall.key \notin KeysOf(dictCall.before) =>
            DictOf(dictCall.slot) = dictCall.before
    /\ dictCall.op \in {"insert", "remove"} =>
            \A k \in DictQueryKeys \ {dictCall.key} :
                DictAttrLookup(DictOf(dictCall.slot), k) = DictAttrLookup(dictCall.before, k)

\* An insert replaced the value of a key of a dictionary that has two keys.
DictOverwriteReached ==
    /\ dictCall.op = "insert"
    /\ dictCall.key \in KeysOf(dictCall.before)
    /\ DictAttrLookup(dictCall.before, dictCall.key) # [some |-> TRUE, val |-> dictCall.val]
    /\ Len(dictCall.before.entries) = 2

----------------------------------------------------------------------------
(* The error model (src/src/result.rs). *)

\* Errors nested in one another.
MaxErrDepth == 2

\* Location: Unknown, or a position of a source.
UnknownLoc == [loc |-> "Unknown"]

SrcPos(src, line, column) == [loc |-> "SrcPos", src |-> src, line |-> line, column |-> column]

\* The source and the two positions of tests::wrapped_err.
TestSrc == "/tmp/test.pliron"

Loc1 == SrcPos(TestSrc, 1, 1)

Loc2 == SrcPos(TestSrc, 1, 2)

Locations == {UnknownLoc, Loc1, Loc2}

\* struct Error { kind, err, loc }.
Error(kind, err, loc) == [type |-> "Error", kind |-> kind, err |-> err, loc |-> loc]

\* StringError(pub String).
StringError(text) == [type |-> "StringError", text |-> text]

\* The error objects of the tests and of IntegerAttr::verify.
TestErr == [type |-> "TestErr"]

SampleErr == [type |-> "SampleErr"]

IntegerAttrBitwidthErr == [type |-> "IntegerAttrBitwidthErr"]

RECURSIVE Format(_, _)
\* format!(str, args..): each {} of the string is replaced by the next argument.
Format(str, args) ==
    IF str = <<>> THEN <<>>
    ELSE IF Head(str) = "{}" /\ args # <<>>
    THEN <<Head(args)>> \o Format(Tail(str), Tail(args))
    ELSE <<Head(str)>> \o Format(Tail(str), args)

\* The arguments a macro is given after the location: an error object, or a
\* string literal with the arguments of its format.
ObjArg(err) == [literal |-> FALSE, err |-> err]

FmtArg(str, args) == [literal |-> TRUE, str |-> str, args |-> args]

\* create_error!: with a string literal, the cause is the StringError of the
\* formatted message; otherwise it is the error object given.
CreateError(loc, kind, arg) ==
    IF arg.literal
    THEN Error(kind, StringError(Format(arg.str, arg.args)), loc)
    ELSE Error(kind, arg.err, loc)

\* Result: Err(e) and Ok(v).
ResultErr(e) == [type |-> "Result", isErr |-> TRUE, error |-> e]

ResultOk(v) == [type |-> "Result", isErr |-> FALSE, val |-> v]

\* create_err!: Err(create_error!(..)).
CreateErr(loc, kind, arg) == ResultErr(CreateError(loc, kind, arg))

\* The macros that take a location, and those that take none.
LocMacros == {"verify_error", "verify_err", "input_error", "input_err", "arg_error", "arg_err"}

NolocMacros ==
    {"verify_error_noloc", "verify_err_noloc", "input_error_noloc", "input_err_noloc",
     "arg_error_noloc", "arg_err_noloc"}

Macros == LocMacros \cup NolocMacros

\* An expansion in which input_error! and input_err! classify as a
\* verification failure.
ExpandMisclassified(macro, loc, arg) ==
    CASE macro \in {"verify_error", "input_error"} -> CreateError(loc, "VerificationFailed", arg)
      [] macro \in {"verify_err", "input_err"} -> CreateErr(loc, "VerificationFailed", arg)
      [] macro = "arg_error" -> CreateError(loc, "InvalidArgument", arg)
      [] macro = "arg_err" -> CreateErr(loc, "InvalidArgument", arg)
      [] macro = "verify_error_noloc" -> CreateError(UnknownLoc, "VerificationFailed", arg)
      [] macro = "verify_err_noloc" -> CreateErr(UnknownLoc, "VerificationFailed", arg)
      [] macro = "input_error_noloc" -> CreateError(UnknownLoc, "InvalidInput", arg)
      [] macro = "input_err_noloc" -> CreateErr(UnknownLoc, "InvalidInput", arg)
      [] macro = "arg_error_noloc" -> CreateError(UnknownLoc, "InvalidArgument", arg)
      [] macro = "arg_err_noloc" -> CreateErr(UnknownLoc, "InvalidArgument", arg)

\* The expansion of macro!(loc, arg), or of macro!(arg) for a macro that takes
\* no location: each is create_error! or create_err! with the macro's kind.
Expand(macro, loc, arg) ==
    CASE macro = "verify_error" -> CreateError(loc, "VerificationFailed", arg)
      [] macro = "verify_err" -> CreateErr(loc, "VerificationFailed", arg)
      [] macro = "input_error" -> CreateError(loc, "InvalidInput", arg)
      [] macro = "input_err" -> CreateErr(loc, "InvalidInput", arg)
      [] macro = "arg_error" -> CreateError(loc, "InvalidArgument", arg)
      [] macro = "arg_err" -> CreateErr(loc, "InvalidArgument", arg)
      [] macro = "verify_error_noloc" -> CreateError(UnknownLoc, "VerificationFailed", arg)
      [] macro = "verify_err_noloc" -> CreateErr(UnknownLoc, "VerificationFailed", arg)
      [] macro = "input_error_noloc" -> CreateError(UnknownLoc, "InvalidInput", arg)
      [] macro = "input_err_noloc" -> CreateErr(UnknownLoc, "InvalidInput", arg)
      [] macro = "arg_error_noloc" -> CreateError(UnknownLoc, "InvalidArgument", arg)
      [] macro = "arg_err_noloc" -> CreateErr(UnknownLoc, "InvalidArgument", arg)

\* #[error(..)] of ErrorKind.
KindMessage(kind) ==
    CASE kind = "InvalidInput" -> "invalid input program"
      [] kind = "VerificationFailed" -> "verification failed"
      [] kind = "InvalidArgument" -> "invalid argument"

\* The Display of an error object that is no Error.
CauseMessage(err) ==
    CASE err.type = "StringError" -> err.text
      [] err.type = "TestErr" -> <<"Test error">>
      [] err.type = "SampleErr" -> <<"sample error">>
      [] err.type = "IntegerAttrBitwidthErr" ->
            <<"The bitwidth type does not match the bitwidth of the value.">>

\* The text of a Location: that of a position as tests::wrapped_err expects it.
LocationDisp(loc) ==
    IF loc.loc = "SrcPos"
    THEN <<loc.src, ": line: ">> \o ToDecimal(loc.line) \o <<", column: ">>
             \o ToDecimal(loc.column)
    ELSE <<"?">>

NL == "\n"

\* writeln!(f, "[{}] Compilation error: {}.", self.loc.disp(ctx), self.kind)
HeaderLine(e) ==
    <<"[">> \o LocationDisp(e.loc) \o <<"] Compilation error: ", KindMessage(e.kind), ".", NL>>

RECURSIVE ErrorDisplay(_), ErrorDisp(_)

\* The Display of an Error, #[error("Compilation error: {kind}.\n{err}")]: it
\* prints no location.
ErrorDisplay(e) ==
    <<"Compilation error: ", KindMessage(e.kind), ".", NL>>
        \o (IF e.err.type = "Error" THEN ErrorDisplay(e.err) ELSE CauseMessage(e.err))

\* A rendering that prints every cause by its Display.
ErrorDispNoDowncast(e) ==
    HeaderLine(e) \o (IF e.err.type = "Error" THEN ErrorDisplay(e.err) ELSE CauseMessage(e.err))

\* impl Printable for Error: the header line, then the cause: rendered the
\* same way when it is an Error, by its Display otherwise.
ErrorDisp(e) ==
    HeaderLine(e) \o (IF e.err.type = "Error" THEN ErrorDisp(e.err) ELSE CauseMessage(e.err))

RECURSIVE ErrDepth(_)
\* The number of Errors nested in e, e included.
ErrDepth(e) == IF e.err.type = "Error" THEN 1 + ErrDepth(e.err) ELSE 1

\* The arguments the model gives a macro: the error objects of the tests, and
\* the format of the doc tests.
BaseArgs ==
    {ObjArg(TestErr), ObjArg(SampleErr), FmtArg(<<"Some formatted ", "{}">>, <<"0">>)}

otherThanErr == <<registryVars, internVars, stringVars, attrVars, dictVars, objVars, opVars, vecVars>>

InitErr ==
    /\ RegistryIdle
    /\ InternIdle
    /\ StringIdle
    /\ AttrIdle
    /\ DictIdle
    /\ ErrIdle
    /\ ObjIdle
    /\ OpIdle
    /\ VecIdle

\* let res = macro!(loc, arg); the Error it builds is the one at hand from now.
ErrMake(macro, loc, arg) ==
    LET r == Expand(macro, loc, arg)
    IN  /\ errVal' = IF r.type = "Error" THEN r ELSE r.error
        /\ errRes' = r
        /\ errText' = <<>>
        /\ errCall' = [op |-> "make", macro |-> macro, loc |-> loc, arg |-> arg,
                       before |-> errVal]
        /\ UNCHANGED otherThanErr

\* A first error is made.
ErrFirst(macro, loc, arg) ==
    /\ errVal = NoErr
    /\ ErrMake(macro, loc, arg)

\* let wrapped_res = macro!(loc, res): the Error at hand becomes the cause.
ErrWrap(macro, loc) ==
    /\ errVal # NoErr
    /\ ErrDepth(errVal) < MaxErrDepth
    /\ ErrMake(macro, loc, ObjArg(errVal))

\* wrapped_res.disp(ctx).to_string()
ErrRender ==
    /\ errVal # NoErr
    /\ errText = <<>>
    /\ errText' = ErrorDisp(errVal)
    /\ errCall' = [op |-> "render"]
    /\ UNCHANGED <<errVal, errRes, otherThanErr>>

NextErr ==
    \/ \E macro \in Macros, loc \in Locations, arg \in BaseArgs : ErrFirst(macro, loc, arg)
    \/ \E macro \in Macros, loc \in Locations : ErrWrap(macro, loc)
    \/ ErrRender

SpecErr == InitErr /\ [][NextErr]_vars

----------------------------------------------------------------------------
(* Properties of the error model. *)

RECURSIVE ErrChain(_)
\* The Errors nested in e, outermost first.
ErrChain(e) == <<e>> \o (IF e.err.type = "Error" THEN ErrChain(e.err) ELSE <<>>)

\* The indexes of the line breaks of a text.
Breaks(text) == {i \in DOMAIN text : text[i] = NL}

\* The k-th line of a text, counting from 1, without its line break.
LineOf(text, k) ==
    LET before == {i \in Breaks(text) : Cardinality({j \in Breaks(text) : j <= i}) = k - 1}
        after == {i \in Breaks(text) : Cardinality({j \in Breaks(text) : j <= i}) = k}
        from == IF before = {} THEN 1 ELSE (CHOOSE i \in before : TRUE) + 1
        to == IF after = {} THEN Len(text) ELSE (CHOOSE i \in after : TRUE) - 1
    IN  SubSeq(text, from, to)

\* C18: the rendering of a chain of n Errors is n header lines "[<location>]
\* Compilation error: <kind message>.", outermost first, each with the location
\* and kind of its own level, and then the message of the innermost cause;
\* wrapping an Error leaves it, its location included, as it was.
RenderingIsCausalStack ==
    /\ errCall.op = "render" =>
            LET chain == ErrChain(errVal)
                n == Len(chain)
            IN  /\ Cardinality(Breaks(errText)) = n
                /\ \A k \in 1..n :
                        LineOf(errText, k) =
                            <<"[">> \o LocationDisp(chain[k].loc)
                                \o <<"] Compilation error: ", KindMessage(chain[k].kind), ".">>
                /\ LineOf(errText, n + 1) = CauseMessage(chain[n].err)
                /\ chain[n].err.type # "Error"
    /\ errCall.op = "make" /\ errCall.before # NoErr => errVal.err = errCall.before

\* An error at one location, wrapped at another, was rendered.
WrappedErrRenderedReached ==
    /\ errCall.op = "render"
    /\ errVal = Error("InvalidInput", Error("InvalidInput", TestErr, Loc2), Loc1)
    /\ errText =
           <<"[", TestSrc, ": line: ", "1", ", column: ", "1", "] Compilation error: ",
             "invalid input program", ".", NL,
             "[", TestSrc, ": line: ", "1", ", column: ", "2", "] Compilation error: ",
             "invalid input program", ".", NL,
             "Test error">>

\* The kind a macro's name stands for.
KindOfMacro(macro) ==
    IF macro \in {"verify_error", "verify_err", "verify_error_noloc", "verify_err_noloc"}
    THEN "VerificationFailed"
    ELSE IF macro \in {"input_error", "input_err", "input_error_noloc", "input_err_noloc"}
    THEN "InvalidInput"
    ELSE "InvalidArgument"

\* The *_err! forms, which return a Result.
ErrForms ==
    {"verify_err", "input_err", "arg_err", "verify_err_noloc", "input_err_noloc",
     "arg_err_noloc"}

\* C19: each macro builds an Error of the kind its name stands for; an *_err!
\* form returns Err of that Error and an *_error! form the Error itself; the
\* cause is the error object given, or the StringError of the formatted
\* message; the location is the one given, Unknown for a *_noloc macro.
MacrosClassifyExactly ==
    errCall.op = "make" =>
        /\ errVal.type = "Error"
        /\ errVal.kind = KindOfMacro(errCall.macro)
        /\ errVal.kind \in ErrorKinds
        /\ IF errCall.macro \in ErrForms
           THEN errRes = [type |-> "Result", isErr |-> TRUE, error |-> errVal]
           ELSE errRes = errVal
        /\ IF errCall.arg.literal
           THEN /\ errVal.err.type = "StringError"
                /\ errCall.arg.str = <<"Some formatted ", "{}">> /\ errCall.arg.args = <<"0">>
                        => errVal.err.text = <<"Some formatted ", "0">>
           ELSE errVal.err = errCall.arg.err
        /\ errVal.loc = IF errCall.macro \in NolocMacros THEN UnknownLoc ELSE errCall.loc

\* input_err! was given a format and a location.
InputErrFormattedReached ==
    /\ errCall.op = "make"
    /\ errCall.macro = "input_err"
    /\ errCall.arg.literal
    /\ errCall.loc = Loc2
    /\ errRes.isErr

----------------------------------------------------------------------------
(* Attribute objects (src/src/builtin/attributes.rs): construction,          *)
(* equality, verification and the cast to an interface. An integer type is   *)
(* held by its handle in the Context's intern table.                         *)

\* Containers (VecAttr, DictAttr) nested in one another.
MaxObjDepth == 1

\* The kinds of builtin attribute the model builds.
AttrKinds == {"identifier", "string", "integer", "dict", "vec", "unit", "type"}

\* IntegerType::get(ctx, 64, Signed) and IntegerType::get(ctx, 32, Signed).
ObjTypeKeys ==
    {[ctor |-> "integer", params |-> <<w, "Signed">>] : w \in Widths}

\* APInt::from_i64(v, bw(w)), for v >= 0.
APIntFromI64(v, w) == [bw |-> w, bits |-> v]

ObjAPInts == {APIntFromI64(0, 64), APIntFromI64(15, 64), APIntFromI64(0, 32)}

\* An IntegerAttr::new that verifies what it builds.
IntegerAttrNewChecked(ty, val) ==
    IF WidthOf(typeTable[ty]) # val.bw
    THEN Expand("verify_err_noloc", UnknownLoc, ObjArg(IntegerAttrBitwidthErr))
    ELSE [kind |-> "integer", ty |-> ty, val |-> val]

\* IntegerAttr::new: IntegerAttr { ty, val }.
IntegerAttrNew(ty, val) == [kind |-> "integer", ty |-> ty, val |-> val]

StringAttrNew(value) == [kind |-> "string", val |-> value]

IdentifierAttrNew(value) == [kind |-> "identifier", val |-> value]

UnitAttrNew == [kind |-> "unit"]

TypeAttrNew(ty) == [kind |-> "type", ty |-> ty]

VecAttrNew(value) == [kind |-> "vec", elems |-> value]

\* impl_verify_succ!: Ok(()).
VerifySucc(a) == ResultOk("unit")

\* A verify of IntegerAttr that accepts every value.
IntegerAttrVerifyAny(table, a) == ResultOk("unit")

\* impl Verify for IntegerAttr.
IntegerAttrVerify(table, a) ==
    IF WidthOf(table[a.ty]) # a.val.bw
    THEN Expand("verify_err_noloc", UnknownLoc, ObjArg(IntegerAttrBitwidthErr))
    ELSE ResultOk("unit")

RECURSIVE AttrVerify(_, _), TryForEachVerify(_, _)

\* A try_for_each that calls the closure on the first element only.
TryForEachVerifyFirstOnly(table, elems) ==
    IF elems = <<>> THEN ResultOk("unit") ELSE AttrVerify(table, Head(elems))

\* self.0.iter().try_for_each(|elm| elm.verify(ctx)): the first error ends it.
TryForEachVerify(table, elems) ==
    IF elems = <<>> THEN ResultOk("unit")
    ELSE LET r == AttrVerify(table, Head(elems))
         IN  IF r.isErr THEN r ELSE TryForEachVerify(table, Tail(elems))

\* impl Verify for VecAttr.
VecAttrVerify(table, a) == TryForEachVerify(table, a.elems)

\* The verify of an attribute's own kind.
AttrVerify(table, a) ==
    CASE a.kind = "integer" -> IntegerAttrVerify(table, a)
      [] a.kind = "vec" -> VecAttrVerify(table, a)
      [] a.kind \in {"identifier", "string", "dict", "unit", "type"} -> VerifySucc(a)

\* The attribute interfaces, and the kinds that implement them
\* (#[attr_interface_impl]).
AttrInterfaces == {"TypedAttrInterface"}

InterfaceImpls == {<<"integer", "TypedAttrInterface">>, <<"type", "TypedAttrInterface">>}

NoneOpt == [some |-> FALSE]

\* A cast that succeeds on every attribute.
AttrCastAny(a, iface) == [some |-> TRUE, obj |-> a]

\* attr_cast::<dyn I>(attr): the attribute as an I when its kind registered an
\* implementation of I, none otherwise.
AttrCast(a, iface) ==
    IF <<a.kind, iface>> \in InterfaceImpls THEN [some |-> TRUE, obj |-> a] ELSE NoneOpt

\* TypedAttrInterface::get_type of IntegerAttr (self.ty.into()) and of
\* TypeAttr (self.0).
TypedGetType(a) ==
    CASE a.kind = "integer" -> a.ty
      [] a.kind = "type" -> a.ty
      [] OTHER -> 0

RECURSIVE ObjDepth(_)
\* The containers nested in an attribute.
ObjDepth(a) ==
    CASE a.kind = "vec" -> IF a.elems = <<>> THEN 1 ELSE 1 + ObjDepth(a.elems[1])
      [] a.kind = "dict" -> IF a.entries = <<>> THEN 1 ELSE 1 + ObjDepth(a.entries[1].val)
      [] OTHER -> 0

ObjSlots == {"A", "B"}

ObjOf(slot) == IF slot = "A" THEN objA ELSE objB

\* The attributes built that a new container may hold a clone of.
Clonable == {ObjOf(s) : s \in {t \in ObjSlots : ObjOf(t) # NoObj /\ ObjDepth(ObjOf(t)) < MaxObjDepth}}

ObjSet(slot, a) ==
    /\ objA' = IF slot = "A" THEN a ELSE objA
    /\ objB' = IF slot = "B" THEN a ELSE objB

otherThanObj ==
    <<registryVars, handed, lastGet, stringVars, attrVars, dictVars, errVars, opVars, vecVars>>

InitObj ==
    /\ RegistryIdle
    /\ InternIdle
    /\ StringIdle
    /\ AttrIdle
    /\ DictIdle
    /\ ErrIdle
    /\ ObjIdle
    /\ OpIdle
    /\ VecIdle

\* let ty = IntegerType::get(&mut ctx, width, Signedness::Signed);
ObjTypeGet(key) ==
    LET r == InternType(typeTable, key)
    IN  /\ typeTable' = r.table
        /\ objCall' = [op |-> "get", key |-> key, handle |-> r.handle]
        /\ UNCHANGED <<objA, objB, otherThanObj>>

\* let attr: AttrObj = IntegerAttr::new(ty, val).into();
ObjNewInteger(slot, ty, val) ==
    LET r == IntegerAttrNew(ty, val)
    IN  /\ ObjSet(slot, r)
        /\ objCall' = [op |-> "new", slot |-> slot, ctor |-> "integer", ty |-> ty,
                       val |-> val, res |-> r]
        /\ UNCHANGED <<typeTable, otherThanObj>>

\* StringAttr::new(..), IdentifierAttr::new(..), UnitAttr::new().
ObjNewLeaf(slot, a) ==
    /\ ObjSet(slot, a)
    /\ objCall' = [op |-> "new", slot |-> slot, ctor |-> a.kind, res |-> a]
    /\ UNCHANGED <<typeTable, otherThanObj>>

\* TypeAttr::new(ty)
ObjNewType(slot, ty) ==
    LET r == TypeAttrNew(ty)
    IN  /\ ObjSet(slot, r)
        /\ objCall' = [op |-> "new", slot |-> slot, ctor |-> "type", ty |-> ty, res |-> r]
        /\ UNCHANGED <<typeTable, otherThanObj>>

\* VecAttr::new(vec![]) and VecAttr::new(vec![x.clone()])
ObjNewVec(slot, elems) ==
    LET r == VecAttrNew(elems)
    IN  /\ ObjSet(slot, r)
        /\ objCall' = [op |-> "new", slot |-> slot, ctor |-> "vec", res |-> r]
        /\ UNCHANGED <<typeTable, otherThanObj>>

\* DictAttr::new(vec![(hello_id, x.clone())])
ObjNewDict(slot, x) ==
    LET r == DictAttrNew(<<[key |-> HelloId, val |-> x]>>)
    IN  /\ ObjSet(slot, r)
        /\ objCall' = [op |-> "new", slot |-> slot, ctor |-> "dict", res |-> r]
        /\ UNCHANGED <<typeTable, otherThanObj>>

\* a == b
ObjEqStep ==
    /\ objA # NoObj
    /\ objB # NoObj
    /\ objCall' = [op |-> "eq", res |-> AttrObjEq(objA, objB)]
    /\ UNCHANGED <<objA, objB, typeTable, otherThanObj>>

\* attr.verify(&ctx)
ObjVerifyStep(slot) ==
    /\ ObjOf(slot) # NoObj
    /\ objCall' = [op |-> "verify", slot |-> slot, res |-> AttrVerify(typeTable, ObjOf(slot))]
    /\ UNCHANGED <<objA, objB, typeTable, otherThanObj>>

\* attr_cast::<dyn TypedAttrInterface>(&*attr).map(|i| i.get_type())
ObjCastStep(slot, iface) ==
    LET c == AttrCast(ObjOf(slot), iface)
    IN  /\ ObjOf(slot) # NoObj
        /\ objCall' = [op |-> "cast", slot |-> slot, iface |-> iface,
                       res |-> IF c.some THEN [some |-> TRUE, ty |-> TypedGetType(c.obj)]
                               ELSE NoneOpt]
        /\ UNCHANGED <<objA, objB, typeTable, otherThanObj>>

ObjLeaves ==
    {StringAttrNew(HelloId), StringAttrNew(WorldId), IdentifierAttrNew(HelloId), UnitAttrNew}

NextObj ==
    \/ \E key \in ObjTypeKeys : ObjTypeGet(key)
    \/ \E slot \in ObjSlots, ty \in DOMAIN typeTable, val \in ObjAPInts :
            ObjNewInteger(slot, ty, val)
    \/ \E slot \in ObjSlots, a \in ObjLeaves : ObjNewLeaf(slot, a)
    \/ \E slot \in ObjSlots, ty \in DOMAIN typeTable : ObjNewType(slot, ty)
    \/ \E slot \in ObjSlots, elems \in {<<>>} \cup {<<x>> : x \in Clonable} :
            ObjNewVec(slot, elems)
    \/ \E slot \in ObjSlots, x \in Clonable : ObjNewDict(slot, x)
    \/ ObjEqStep
    \/ \E slot \in ObjSlots : ObjVerifyStep(slot)
    \/ \E slot \in ObjSlots, iface \in AttrInterfaces : ObjCastStep(slot, iface)

SpecObj == InitObj /\ [][NextObj]_vars

----------------------------------------------------------------------------
(* Properties of the attribute objects. *)

RECURSIVE Canon(_)
\* An attribute with the entries of every DictAttr in it as a set.
Canon(a) ==
    CASE a.kind = "vec" -> [kind |-> "vec", elems |-> [i \in DOMAIN a.elems |-> Canon(a.elems[i])]]
      [] a.kind = "dict" ->
            [kind |-> "dict",
             entries |-> {<<a.entries[i].key, Canon(a.entries[i].val)>> : i \in DOMAIN a.entries}]
      [] OTHER -> a

ObjBothBuilt == objA # NoObj /\ objB # NoObj

\* C13: two AttrObj are equal only if they are of one concrete kind, and then
\* exactly when their payloads are equal: attributes of different kinds are
\* unequal whatever they hold, two of one kind with equal payloads are equal,
\* two of one kind with different payloads are unequal.
EqualityIsWithinOneKind ==
    /\ ObjBothBuilt /\ objA.kind # objB.kind => ~AttrObjEq(objA, objB)
    /\ ObjBothBuilt /\ objA.kind = objB.kind =>
            (AttrObjEq(objA, objB) <=> Canon(objA) = Canon(objB))
    /\ objCall.op = "eq" => objCall.res = (Canon(objA) = Canon(objB))

\* A StringAttr was compared with an IdentifierAttr of the same text.
CrossKindComparedReached ==
    /\ objCall.op = "eq"
    /\ ~objCall.res
    /\ objA = StringAttrNew(HelloId)
    /\ objB = IdentifierAttrNew(HelloId)

\* C14: IntegerAttr::verify is Ok exactly when the width of the attribute's
\* IntegerType is the bit width of its APInt; otherwise it is an Error of kind
\* VerificationFailed, with cause IntegerAttrBitwidthErr, at Location::Unknown.
IntegerVerifyChecksWidth ==
    objCall.op = "verify" /\ ObjOf(objCall.slot).kind = "integer" =>
        LET a == ObjOf(objCall.slot)
        IN  IF typeTable[a.ty].params[1] = a.val.bw
            THEN objCall.res = [type |-> "Result", isErr |-> FALSE, val |-> "unit"]
            ELSE /\ objCall.res.isErr
                 /\ objCall.res.error.kind = "VerificationFailed"
                 /\ objCall.res.error.err = IntegerAttrBitwidthErr
                 /\ objCall.res.error.loc = UnknownLoc

\* An IntegerAttr of a 64-bit type and a 32-bit value was verified.
WidthMismatchVerifiedReached ==
    /\ objCall.op = "verify"
    /\ ObjOf(objCall.slot).kind = "integer"
    /\ typeTable[ObjOf(objCall.slot).ty].params[1] = 64
    /\ ObjOf(objCall.slot).val.bw = 32
    /\ objCall.res.isErr

RECURSIVE IsValid(_)
\* The attribute, and every element of it when it is a VecAttr, has the bit
\* width of its type.
IsValid(a) ==
    CASE a.kind = "integer" -> typeTable[a.ty].params[1] = a.val.bw
      [] a.kind = "vec" -> \A i \in DOMAIN a.elems : IsValid(a.elems[i])
      [] OTHER -> TRUE

\* C15: a construction returns the attribute of its arguments, valid or not,
\* and no error; an Error of kind VerificationFailed comes only from a verify
\* call, which is made on an object built before.
BuildThenVerify ==
    /\ objCall.op = "new" =>
            /\ "kind" \in DOMAIN objCall.res
            /\ objCall.res.kind = objCall.ctor
            /\ ObjOf(objCall.slot) = objCall.res
            /\ objCall.ctor = "integer" =>
                    objCall.res.ty = objCall.ty /\ objCall.res.val = objCall.val
    /\ objCall.op \in {"new", "cast"} => "isErr" \notin DOMAIN objCall.res
    /\ objCall.op = "eq" => objCall.res \in BOOLEAN
    /\ objCall.op = "get" => objCall.handle \in DOMAIN typeTable
    /\ objCall.op = "verify" =>
            (objCall.res.isErr <=> ~IsValid(ObjOf(objCall.slot)))
    /\ objCall.op = "verify" /\ objCall.res.isErr =>
            objCall.res.error.kind = "VerificationFailed"

\* A VecAttr built around an invalid IntegerAttr failed its verification.
InvalidBuiltThenVerifiedReached ==
    /\ objCall.op = "verify"
    /\ objCall.res.isErr
    /\ ObjOf(objCall.slot).kind = "vec"

\* C16: the cast of a TypeAttr or an IntegerAttr to TypedAttrInterface
\* succeeds and its get_type is the handle the attribute was built with; the
\* cast of an attribute whose kind registered no implementation is none.
CastIsByRegistration ==
    /\ objCall.op = "cast" /\ objCall.iface = "TypedAttrInterface" =>
            LET a == ObjOf(objCall.slot)
            IN  IF a.kind \in {"integer", "type"}
                THEN objCall.res = [some |-> TRUE, ty |-> a.ty] /\ a.ty \in DOMAIN typeTable
                ELSE objCall.res = [some |-> FALSE]
    /\ objCall.op = "new" /\ objCall.ctor \in {"integer", "type"} =>
            LET c == AttrCast(objCall.res, "TypedAttrInterface")
            IN  c.some /\ TypedGetType(c.obj) = objCall.ty

\* A TypeAttr of the second interned type was cast to TypedAttrInterface.
TypeAttrCastReached ==
    /\ objCall.op = "cast"
    /\ ObjOf(objCall.slot).kind = "type"
    /\ objCall.res.some
    /\ objCall.res.ty = 2
    /\ ObjOf(IF objCall.slot = "A" THEN "B" ELSE "A").kind = "string"

----------------------------------------------------------------------------
(* The op interfaces of the LLVM dialect (src/src/dialects/llvm/              *)
(* op_interfaces.rs): the verify of BinArithOp, IntBinArithOp and             *)
(* IntBinArithOpWithOverflowFlag on an Operation.                             *)

\* Operands of an Operation.
MaxOperands == 3

\* ATTR_KEY_INTEGER_OVERFLOW_FLAGS
AttrKeyIntegerOverflowFlags == "llvm.integer_overflow_flags"

\* enum IntegerOverflowFlagsAttr { None, Nsw, Nuw }
IntegerOverflowFlags == {"None", "Nsw", "Nuw"}

IntegerOverflowFlagsAttr(flag) == [kind |-> "integer_overflow_flags", flag |-> flag]

\* The types of the results: the 32-bit integer types and a pointer type.
OpTypes ==
    {[ctor |-> "integer", params |-> <<32, sg>>] : sg \in Signednesses}
        \cup {[ctor |-> "pointer", params |-> <<>>]}

BinArithOpErr == [type |-> "BinArithOpErr"]

IntBinArithOpErr == [type |-> "IntBinArithOpErr"]

IntBinArithOpWithOverflowFlagErr == [type |-> "IntBinArithOpWithOverflowFlagErr"]

\* Operation::new(ctx, opid, result_types, operands, 0): an Operation with no
\* attribute; only the number of its operands is kept.
OperationNew(resultTypes, numOperands, loc) ==
    [resultTypes |-> resultTypes, numOperands |-> numOperands, attributes |-> <<>>,
     loc |-> loc]

\* SameOperandsAndResultType::get_type: the type of the first result.
SameOperandsAndResultTypeGetType(o) == o.resultTypes[1]

\* A verify that accepts one result and any number of operands above one.
BinArithOpVerifyAtLeastTwo(o) ==
    IF Len(o.resultTypes) # 1 \/ o.numOperands < 2
    THEN Expand("verify_err", o.loc, ObjArg(BinArithOpErr))
    ELSE ResultOk("unit")

\* BinArithOp::verify
BinArithOpVerify(o) ==
    IF Len(o.resultTypes) # 1 \/ o.numOperands # 2
    THEN Expand("verify_err", o.loc, ObjArg(BinArithOpErr))
    ELSE ResultOk("unit")

\* IntBinArithOp::verify
IntBinArithOpVerify(o) ==
    LET ty == SameOperandsAndResultTypeGetType(o)
    IN  IF ty.ctor # "integer"
        THEN Expand("verify_err", o.loc, ObjArg(IntBinArithOpErr))
        ELSE IF SignednessOf(ty) # "Signless"
        THEN Expand("verify_err", o.loc, ObjArg(IntBinArithOpErr))
        ELSE ResultOk("unit")

\* matches!(op.attributes.get(KEY), Some(attr) if attr.is::<IntegerOverflowFlagsAttr>())
HasIntegerOverflowFlags(o) ==
    LET attr == MapGet(o.attributes, AttrKeyIntegerOverflowFlags)
    IN  attr.some /\ attr.val.kind = "integer_overflow_flags"

\* A verify that runs the checks of the interfaces it builds on first.
OverflowFlagVerifyChained(o) ==
    IF BinArithOpVerify(o).isErr THEN BinArithOpVerify(o)
    ELSE IF IntBinArithOpVerify(o).isErr THEN IntBinArithOpVerify(o)
    ELSE IF ~HasIntegerOverflowFlags(o)
    THEN Expand("verify_err", o.loc, ObjArg(IntBinArithOpWithOverflowFlagErr))
    ELSE ResultOk("unit")

\* IntBinArithOpWithOverflowFlag::verify
OverflowFlagVerify(o) ==
    IF ~HasIntegerOverflowFlags(o)
    THEN Expand("verify_err", o.loc, ObjArg(IntBinArithOpWithOverflowFlagErr))
    ELSE ResultOk("unit")

\* An insert that keeps the attribute a key already has.
OperationSetAttrIfAbsent(o, key, attr) ==
    IF MapGet(o.attributes, key).some THEN o
    ELSE [o EXCEPT !.attributes = MapInsert(@, key, attr)]

\* IntBinArithOpWithOverflowFlag::set_integer_overflow_flag, and any other
\* insert under the same key: op.attributes.insert(KEY, Box::new(attr)).
OperationSetAttr(o, key, attr) == [o EXCEPT !.attributes = MapInsert(@, key, attr)]

otherThanOp ==
    <<registryVars, internVars, stringVars, attrVars, dictVars, errVars, objVars, vecVars>>

InitOp ==
    /\ RegistryIdle
    /\ InternIdle
    /\ StringIdle
    /\ AttrIdle
    /\ DictIdle
    /\ ErrIdle
    /\ ObjIdle
    /\ OpIdle
    /\ VecIdle

\* BinArithOp::new(ctx, lhs, rhs): Operation::new(ctx, opid,
\* vec![lhs.get_type(ctx)], vec![lhs, rhs], 0).
BinArithOpNew(lhsType, loc) == OperationNew(<<lhsType>>, 2, loc)

AbortRes(msg) == [aborted |-> TRUE, msg |-> msg]

\* IntBinArithOpWithOverflowFlag::integer_overflow_flag: the attribute under
\* the key, cloned; each expect aborts with its message.
IntegerOverflowFlag(o) ==
    LET attr == MapGet(o.attributes, AttrKeyIntegerOverflowFlags)
    IN  IF ~attr.some THEN AbortRes("Integer overflow flag missing")
        ELSE IF attr.val.kind # "integer_overflow_flags"
        THEN AbortRes("Attribute expected to be IntegerOverflowFlag")
        ELSE attr.val

\* An Operation is built and no call has aborted.
OpRunning == opObj # NoOp /\ opCall.op # "abort"

\* let op = Operation::new(ctx, opid, result_types, operands, 0);
\* The history keeps how the Operation was built (built) and the last
\* attribute put under the key of the flags (last).
OpNewStep(resultTypes, numOperands, loc) ==
    /\ opObj = NoOp
    /\ opObj' = OperationNew(resultTypes, numOperands, loc)
    /\ opCall' = [op |-> "new", built |-> "Operation::new", last |-> NoneOpt]
    /\ UNCHANGED otherThanOp

\* let op = <T as BinArithOp>::new(ctx, lhs, rhs);
OpBinArithNewStep(lhsType, loc) ==
    /\ opObj = NoOp
    /\ opObj' = BinArithOpNew(lhsType, loc)
    /\ opCall' = [op |-> "new", built |-> "BinArithOp::new", last |-> NoneOpt]
    /\ UNCHANGED otherThanOp

\* Self::set_integer_overflow_flag(op, ctx, flag)
OpSetFlagStep(flag) ==
    /\ OpRunning
    /\ opObj' = OperationSetAttr(opObj, AttrKeyIntegerOverflowFlags,
                                 IntegerOverflowFlagsAttr(flag))
    /\ opCall' = [op |-> "set_flag", flag |-> flag, built |-> opCall.built,
                  last |-> [some |-> TRUE, val |-> IntegerOverflowFlagsAttr(flag)]]
    /\ UNCHANGED otherThanOp

\* op.attributes.insert(ATTR_KEY_INTEGER_OVERFLOW_FLAGS, attr) with an
\* attribute of another kind.
OpSetOtherStep(attr) ==
    /\ OpRunning
    /\ opObj' = OperationSetAttr(opObj, AttrKeyIntegerOverflowFlags, attr)
    /\ opCall' = [op |-> "set_other", built |-> opCall.built,
                  last |-> [some |-> TRUE, val |-> attr]]
    /\ UNCHANGED otherThanOp

\* <T as BinArithOp>::verify(op, ctx)
OpVerifyBinArith ==
    /\ OpRunning
    /\ opCall' = [op |-> "verify", iface |-> "BinArithOp", res |-> BinArithOpVerify(opObj),
                  built |-> opCall.built, last |-> opCall.last]
    /\ UNCHANGED <<opObj, otherThanOp>>

\* <T as IntBinArithOp>::verify(op, ctx)
OpVerifyIntBinArith ==
    /\ OpRunning
    /\ opCall' = [op |-> "verify", iface |-> "IntBinArithOp",
                  res |-> IntBinArithOpVerify(opObj),
                  built |-> opCall.built, last |-> opCall.last]
    /\ UNCHANGED <<opObj, otherThanOp>>

\* <T as IntBinArithOpWithOverflowFlag>::verify(op, ctx)
OpVerifyOverflowFlag ==
    /\ OpRunning
    /\ opCall' = [op |-> "verify", iface |-> "IntBinArithOpWithOverflowFlag",
                  res |-> OverflowFlagVerify(opObj),
                  built |-> opCall.built, last |-> opCall.last]
    /\ UNCHANGED <<opObj, otherThanOp>>

\* Self::integer_overflow_flag(op, ctx): the flag, or the end of the program
\* when an expect fails.
OpGetFlagStep ==
    /\ OpRunning
    /\ LET r == IntegerOverflowFlag(opObj)
       IN  opCall' = [op |-> IF "aborted" \in DOMAIN r THEN "abort" ELSE "get_flag",
                      res |-> r, built |-> opCall.built, last |-> opCall.last]
    /\ UNCHANGED <<opObj, otherThanOp>>

NextOp ==
    \/ \E ty \in OpTypes, results \in 1..2, n \in 0..MaxOperands, loc \in {UnknownLoc, Loc1} :
            OpNewStep([i \in 1..results |-> ty], n, loc)
    \/ \E ty \in OpTypes, loc \in {UnknownLoc, Loc1} : OpBinArithNewStep(ty, loc)
    \/ \E flag \in IntegerOverflowFlags : OpSetFlagStep(flag)
    \/ OpSetOtherStep(UnitAttr)
    \/ OpVerifyBinArith
    \/ OpVerifyIntBinArith
    \/ OpVerifyOverflowFlag
    \/ OpGetFlagStep

SpecOp == InitOp /\ [][NextOp]_vars

----------------------------------------------------------------------------
(* Properties of the op interfaces. *)

\* The Operation has one result and two operands.
IsBinary(o) == Len(o.resultTypes) = 1 /\ o.numOperands = 2

\* The type of the Operation's first result is a signless integer type.
IsSignlessInteger(o) ==
    o.resultTypes[1].ctor = "integer" /\ o.resultTypes[1].params[2] = "Signless"

\* The attribute of the overflow flags, when the Operation has one.
FlagsOf(o) ==
    {o.attributes[i].val : i \in {j \in DOMAIN o.attributes :
        /\ o.attributes[j].key = AttrKeyIntegerOverflowFlags
        /\ o.attributes[j].val.kind = "integer_overflow_flags"}}

\* C17: the verify of an interface runs its own check only.
\* IntBinArithOpWithOverflowFlag::verify is Ok exactly when the Operation has
\* an IntegerOverflowFlagsAttr under the key of the flags, whatever the number
\* of its results and operands and whatever its type; IntBinArithOp::verify is
\* Ok exactly when the type is a signless integer type, whatever the numbers;
\* BinArithOp::verify is Ok exactly when there are one result and two operands.
InterfaceChecksAreFlat ==
    opCall.op = "verify" =>
        /\ opCall.iface = "IntBinArithOpWithOverflowFlag" =>
                (~opCall.res.isErr <=> FlagsOf(opObj) # {})
        /\ opCall.iface = "IntBinArithOp" =>
                (~opCall.res.isErr <=> IsSignlessInteger(opObj))
        /\ opCall.iface = "BinArithOp" =>
                (~opCall.res.isErr <=> IsBinary(opObj))
        /\ opCall.res.isErr =>
                /\ opCall.res.error.kind = "VerificationFailed"
                /\ opCall.res.error.loc = opObj.loc

\* The verify of the overflow flag passed on an Operation with two results,
\* three operands and a pointer type, which has the flag nsw.
FlagVerifiedOnBadOpReached ==
    /\ opCall.op = "verify"
    /\ opCall.iface = "IntBinArithOpWithOverflowFlag"
    /\ ~opCall.res.isErr
    /\ FlagsOf(opObj) = {IntegerOverflowFlagsAttr("Nsw")}
    /\ Len(opObj.resultTypes) = 2
    /\ opObj.numOperands = 3
    /\ opObj.resultTypes[1].ctor = "pointer"
    /\ BinArithOpVerify(opObj).isErr
    /\ IntBinArithOpVerify(opObj).isErr

----------------------------------------------------------------------------
(* Parsing the text of an integer attribute whose type part may be no        *)
(* integer type (src/src/builtin/attributes.rs, test_integer_attributes).    *)

\* Spaces between the ':' and the type part.
MaxPad == 1

\* The number of characters of an element of a text: the characters of a
\* kind's name, one for any other element.
CharLen(e) ==
    CASE e = "builtin.identifier" -> 18
      [] e = "builtin.integer" -> 15
      [] e = "builtin.string" -> 14
      [] e = "builtin.unit" -> 12
      [] e = "builtin.type" -> 12
      [] e = "builtin.dict" -> 12
      [] e = "builtin.vec" -> 11
      [] OTHER -> 1

RECURSIVE Column(_, _)
\* The column of the stream at element i of a text of one line.
Column(text, i) == IF i <= 1 THEN 1 ELSE Column(text, i - 1) + CharLen(text[i - 1])

\* The digits of the inputs.
IntTextDigits == {<<"0">>, <<"1", "5">>, <<"-", "1">>}

\* Type parts that are integer types.
IntegerTypeParts == {<<"s", "i", "4">>, <<"u", "i", "4">>, <<"i", "8">>}

\* Type parts that do not begin with an integer type.
NonIntegerTypeParts ==
    {<<"builtin.unit">>, <<"builtin.string">>, <<"x", "4">>, <<"4">>, <<"s", "4">>, <<"u">>,
     <<"i">>, <<"i", "x">>, <<"s", "i">>, <<"u", "i", "x">>}

IntTextInputs ==
    [digits : IntTextDigits, pad : 0..MaxPad,
     typePart : IntegerTypeParts \cup NonIntegerTypeParts]

\* let attr_input = "builtin.integer <{digits}:{pad}{typePart}>";
IntegerAttrText(in) ==
    <<"builtin.integer", " ", "<">> \o in.digits \o <<":">>
        \o [k \in 1..in.pad |-> " "] \o in.typePart \o <<">">>

\* "Parse error at line: 1, column: {column}": the position of the stream
\* where the parser failed.
ParseErrPosition(text, res) == [line |-> 1, column |-> Column(text, res.col)]

InitIntText ==
    /\ RegistryIdle
    /\ InternIdle
    /\ StringIdle
    /\ attrIn \in IntTextInputs
    /\ attrText = IntegerAttrText(attrIn)
    /\ attrOut = NoAttr
    /\ attrText2 = <<>>
    /\ RestIdle

\* attr_parser().parse(state_stream) on attr_input
IntTextParseStep ==
    /\ attrOut.op = "none"
    /\ LET res == AttrParse(attrText, 1)
       IN  attrOut' =
               IF res.st = "err"
               THEN [op |-> "parsed", res |-> res, pos |-> ParseErrPosition(attrText, res)]
               ELSE [op |-> "parsed", res |-> res]
    /\ UNCHANGED <<attrIn, attrText, attrText2, registryVars, internVars, stringVars, restVars>>

NextIntText == IntTextParseStep

SpecIntText == InitIntText /\ [][NextIntText]_vars

----------------------------------------------------------------------------
(* Properties of parsing the text of an integer attribute. *)

\* The characters before the type part: the name of the kind, a space, '<',
\* the digits, ':' and the spaces.
CharsBeforeTypePart(in) == 15 + 1 + 1 + Len(in.digits) + 1 + in.pad

\* The characters of si, ui or i when the type part begins with one of them.
SignPrefixLen(tp) ==
    IF Len(tp) >= 2 /\ tp[1] \in {"s", "u"} /\ tp[2] = "i" THEN 2
    ELSE IF Len(tp) >= 1 /\ tp[1] = "i" THEN 1
    ELSE 0

\* The text is `builtin.integer <0: builtin.unit>`.
IsUnitTypedInput(in) == in = [digits |-> <<"0">>, pad |-> 1, typePart |-> <<"builtin.unit">>]

----------------------------------------------------------------------------
(* The verification of a VecAttr of several elements                         *)
(* (src/src/builtin/attributes.rs, impl Verify for VecAttr).                  *)

\* Elements of the VecAttr.
MaxVerifyLen == 3

\* The Context's table after IntegerType::get(ctx, 64, Signed) and
\* IntegerType::get(ctx, 32, Signed).
VecTypeTable ==
    InternType(InternType(<<>>, [ctor |-> "integer", params |-> <<64, "Signed">>]).table,
               [ctor |-> "integer", params |-> <<32, "Signed">>]).table

\* An IntegerAttr of the 64-bit type with a 64-bit value, and one with a
\* 32-bit value.
GoodInt == IntegerAttrNew(1, APIntFromI64(15, 64))

BadInt == IntegerAttrNew(1, APIntFromI64(0, 32))

VerifyElems ==
    {GoodInt, BadInt, StringAttrNew(HelloId), VecAttrNew(<<GoodInt>>), VecAttrNew(<<BadInt>>)}

RECURSIVE TryForEachCalls(_, _, _)
\* The indices of the elements try_for_each calls the closure on, from index
\* i on: each element in order, up to and including the first whose verify is
\* an error.
TryForEachCalls(table, elems, i) ==
    IF i > Len(elems) THEN <<>>
    ELSE IF AttrVerify(table, elems[i]).isErr THEN <<i>>
    ELSE <<i>> \o TryForEachCalls(table, elems, i + 1)

InitVec ==
    /\ RegistryIdle
    /\ typeTable = VecTypeTable
    /\ handed = {}
    /\ lastGet = NoGet
    /\ StringIdle
    /\ AttrIdle
    /\ DictIdle
    /\ ErrIdle
    /\ ObjIdle
    /\ OpIdle
    /\ vecAttr \in {VecAttrNew(e) : e \in SeqsUpTo(VerifyElems, MaxVerifyLen)}
    /\ vecCall = NoCall

\* vec_attr.verify(&ctx)
VecVerifyStep ==
    /\ vecCall = NoCall
    /\ vecCall' = [op |-> "verify", res |-> VecAttrVerify(typeTable, vecAttr),
                   calls |-> TryForEachCalls(typeTable, vecAttr.elems, 1)]
    /\ UNCHANGED <<vecAttr, registryVars, internVars, stringVars, attrVars, dictVars,
                   errVars, objVars, opVars>>

NextVec == VecVerifyStep

SpecVec == InitVec /\ [][NextVec]_vars

----------------------------------------------------------------------------
(* Properties of the verification of a VecAttr. *)

\* The indices of the elements that do not verify: an IntegerAttr whose value
\* has not the width of its type, or a VecAttr that holds one.
FailingElems(v) == {i \in DOMAIN v.elems : ~IsValid(v.elems[i])}

FirstFailing(v) == CHOOSE i \in FailingElems(v) : \A j \in FailingElems(v) : i <= j

\* C21: VecAttr::verify is Ok exactly when every element verifies (so for the
\* empty vector), and then every element was verified in order; otherwise it
\* is the error of the first element that fails (VerificationFailed, with
\* cause IntegerAttrBitwidthErr), and the elements verified are those up to
\* and including that one, none after it.
VecVerifyStopsAtFirstFailure ==
    vecCall.op = "verify" =>
        IF FailingElems(vecAttr) = {}
        THEN /\ vecCall.res = [type |-> "Result", isErr |-> FALSE, val |-> "unit"]
             /\ vecCall.calls = [i \in 1..Len(vecAttr.elems) |-> i]
        ELSE /\ vecCall.res.isErr
             /\ vecCall.res = AttrVerify(typeTable, vecAttr.elems[FirstFailing(vecAttr)])
             /\ vecCall.res.error.kind = "VerificationFailed"
             /\ vecCall.res.error.err = IntegerAttrBitwidthErr
             /\ vecCall.calls = [i \in 1..FirstFailing(vecAttr) |-> i]

\* A VecAttr of a valid element, a failing one and another failing one was
\* verified: the third element was not.
SecondOfThreeFailedReached ==
    /\ vecCall.op = "verify"
    /\ vecAttr.elems = <<GoodInt, VecAttrNew(<<BadInt>>), BadInt>>
    /\ vecCall.res.isErr
    /\ vecCall.calls = <<1, 2>>

\* C22: BinArithOp::verify is Ok exactly when the Operation has one result
\* and two operands; otherwise it is an Error of kind VerificationFailed with
\* cause BinArithOpErr at the location of the Operation. An Operation built
\* by BinArithOp::new has one result and two operands and passes the check.
BinArithVerifyChecksCounts ==
    /\ opCall.op = "verify" /\ opCall.iface = "BinArithOp" =>
            IF Len(opObj.resultTypes) = 1 /\ opObj.numOperands = 2
            THEN opCall.res = [type |-> "Result", isErr |-> FALSE, val |-> "unit"]
            ELSE /\ opCall.res.isErr
                 /\ opCall.res.error.kind = "VerificationFailed"
                 /\ opCall.res.error.err = BinArithOpErr
                 /\ opCall.res.error.loc = opObj.loc
    /\ opObj # NoOp /\ opCall.built = "BinArithOp::new" =>
            /\ Len(opObj.resultTypes) = 1
            /\ opObj.numOperands = 2
            /\ opCall.op = "verify" /\ opCall.iface = "BinArithOp" => ~opCall.res.isErr

\* BinArithOp::verify passed on an Operation that BinArithOp::new built from
\* an operand of a pointer type and that got an attribute since.
BinArithNewVerifiedReached ==
    /\ opCall.op = "verify"
    /\ opCall.iface = "BinArithOp"
    /\ opCall.built = "BinArithOp::new"
    /\ ~opCall.res.isErr
    /\ opObj.resultTypes[1].ctor = "pointer"
    /\ opObj.attributes # <<>>

\* C24: after set_integer_overflow_flag(op, f) the verify of the overflow
\* flag is Ok and integer_overflow_flag is f, the flag set last; the verify
\* is an Error (VerificationFailed, IntBinArithOpWithOverflowFlagErr, at the
\* location of the Operation) exactly when nothing or an attribute of another
\* kind is under the key; integer_overflow_flag aborts in those cases only,
\* so never on an Operation whose verify is Ok.
FlagSetThenVerifiedAndRead ==
    /\ opCall.op = "set_flag" =>
            /\ ~OverflowFlagVerify(opObj).isErr
            /\ IntegerOverflowFlag(opObj) = IntegerOverflowFlagsAttr(opCall.flag)
    /\ opCall.op = "verify" /\ opCall.iface = "IntBinArithOpWithOverflowFlag" =>
            IF opCall.last.some /\ opCall.last.val.kind = "integer_overflow_flags"
            THEN opCall.res = [type |-> "Result", isErr |-> FALSE, val |-> "unit"]
            ELSE /\ opCall.res.isErr
                 /\ opCall.res.error.kind = "VerificationFailed"
                 /\ opCall.res.error.err = IntBinArithOpWithOverflowFlagErr
                 /\ opCall.res.error.loc = opObj.loc
    /\ opCall.op = "get_flag" =>
            /\ opCall.last.some
            /\ opCall.res = opCall.last.val
            /\ opCall.res.kind = "integer_overflow_flags"
    /\ opCall.op = "abort" =>
            ~(opCall.last.some /\ opCall.last.val.kind = "integer_overflow_flags")
    /\ opObj # NoOp /\ ~OverflowFlagVerify(opObj).isErr =>
            "aborted" \notin DOMAIN IntegerOverflowFlag(opObj)

\* integer_overflow_flag returned nuw, the flag set last, on an Operation of
\* three operands.
SecondFlagReadReached ==
    /\ opCall.op = "get_flag"
    /\ opCall.res = IntegerOverflowFlagsAttr("Nuw")
    /\ Len(opObj.attributes) = 1
    /\ opObj.numOperands = 3

----------------------------------------------------------------------------
(* The attributes of the LLVM dialect that are enumerations                  *)
(* (src/src/dialects/llvm/attributes.rs): IntegerOverflowFlagsAttr and       *)
(* ICmpPredicateAttr, their printed keywords and their parsers.              *)

\* Characters of the stream after the printed attribute.
MaxRestLen == 1

\* enum ICmpPredicateAttr
ICmpPredicates == {"EQ", "NE", "SLT", "SLE", "SGT", "SGE", "ULT", "ULE", "UGT", "UGE"}

ICmpPredicateAttr(pred) == [kind |-> "icmp_predicate", pred |-> pred]

EnumAttrs ==
    {IntegerOverflowFlagsAttr(f) : f \in IntegerOverflowFlags}
        \cup {ICmpPredicateAttr(p) : p \in ICmpPredicates}

\* impl Printable for IntegerOverflowFlagsAttr
IntegerOverflowFlagsPrint(a) ==
    CASE a.flag = "None" -> <<"n", "o", "n", "e">>
      [] a.flag = "Nsw" -> <<"n", "s", "w">>
      [] a.flag = "Nuw" -> <<"n", "u", "w">>

\* impl Printable for ICmpPredicateAttr
ICmpPredicatePrint(a) ==
    CASE a.pred = "EQ" -> <<"e", "q">>
      [] a.pred = "NE" -> <<"n", "e">>
      [] a.pred = "SLT" -> <<"s", "l", "t">>
      [] a.pred = "SLE" -> <<"s", "l", "e">>
      [] a.pred = "SGT" -> <<"s", "g", "t">>
      [] a.pred = "SGE" -> <<"s", "g", "e">>
      [] a.pred = "ULT" -> <<"u", "l", "t">>
      [] a.pred = "ULE" -> <<"u", "l", "e">>
      [] a.pred = "UGT" -> <<"u", "g", "t">>
      [] a.pred = "UGE" -> <<"u", "g", "e">>

EnumPrint(a) ==
    IF a.kind = "integer_overflow_flags" THEN IntegerOverflowFlagsPrint(a)
    ELSE ICmpPredicatePrint(a)

\* The number of leading characters of the keyword kw that the text has from
\* index i on.
RECURSIVE Matched(_, _, _)
Matched(kw, text, i) ==
    IF kw = <<>> \/ At(text, i) # Head(kw) THEN 0
    ELSE 1 + Matched(Tail(kw), text, i + 1)

\* string(kw).map(|_| val): the characters of kw one by one. A mismatch on
\* the first character fails without consuming (the choice goes on to its
\* next alternative); a mismatch after a match has consumed input and the
\* failure is committed.
StringParser(kw, val, text, i) ==
    LET n == Matched(kw, text, i)
    IN  IF n = Len(kw) THEN Ok(val, i + n)
        ELSE [st |-> "err", committed |-> n > 0]

\* choice((p1, p2, ..)): the alternatives in order; the result of the first
\* that succeeds or whose failure is committed, the failure of the last
\* otherwise. alts is the sequence of (keyword, value).
RECURSIVE Choice(_, _, _)
Choice(alts, text, i) ==
    LET r == StringParser(Head(alts).kw, Head(alts).val, text, i)
    IN  IF r.st = "ok" \/ r.committed \/ Len(alts) = 1 THEN r
        ELSE Choice(Tail(alts), text, i)

Alt(a) == [kw |-> EnumPrint(a), val |-> a]

\* impl Parsable for IntegerOverflowFlagsAttr
IntegerOverflowFlagsParse(text, i) ==
    Choice(<<Alt(IntegerOverflowFlagsAttr("None")), Alt(IntegerOverflowFlagsAttr("Nsw")),
             Alt(IntegerOverflowFlagsAttr("Nuw"))>>, text, i)

\* impl Parsable for ICmpPredicateAttr
ICmpPredicateParse(text, i) ==
    Choice(<<Alt(ICmpPredicateAttr("EQ")), Alt(ICmpPredicateAttr("NE")),
             Alt(ICmpPredicateAttr("SLT")), Alt(ICmpPredicateAttr("SLE")),
             Alt(ICmpPredicateAttr("SGT")), Alt(ICmpPredicateAttr("SGE")),
             Alt(ICmpPredicateAttr("ULT")), Alt(ICmpPredicateAttr("ULE")),
             Alt(ICmpPredicateAttr("UGT")), Alt(ICmpPredicateAttr("UGE"))>>, text, i)

\* What follows the attribute in the stream.
RestChars == {" ", "e", "w"}

InitEnum ==
    /\ RegistryIdle
    /\ InternIdle
    /\ StringIdle
    /\ attrIn \in [attr : EnumAttrs, rest : SeqsUpTo(RestChars, MaxRestLen)]
    /\ attrText = <<>>
    /\ attrOut = NoAttr
    /\ attrText2 = <<>>
    /\ RestIdle

\* attr.disp(ctx).to_string(), followed by the rest of the stream.
EnumPrintStep ==
    /\ attrOut.op = "none"
    /\ attrText' = EnumPrint(attrIn.attr) \o attrIn.rest
    /\ attrOut' = [op |-> "printed"]
    /\ UNCHANGED <<attrIn, attrText2, registryVars, internVars, stringVars, restVars>>

\* The parser of the attribute's kind on the stream.
EnumParseStep ==
    /\ attrOut.op = "printed"
    /\ attrOut' = [op |-> "parsed",
                   res |-> IF attrIn.attr.kind = "integer_overflow_flags"
                           THEN IntegerOverflowFlagsParse(attrText, 1)
                           ELSE ICmpPredicateParse(attrText, 1)]
    /\ UNCHANGED <<attrIn, attrText, attrText2, registryVars, internVars, stringVars, restVars>>

NextEnum == EnumPrintStep \/ EnumParseStep

SpecEnum == InitEnum /\ [][NextEnum]_vars

----------------------------------------------------------------------------
(* Properties of the enumeration attributes. *)

\* C23: for every variant of IntegerOverflowFlagsAttr and ICmpPredicateAttr,
\* parsing the text printed for the variant gives the variant again and
\* reads exactly that text, also for the variants whose keyword begins like
\* the keyword of an earlier alternative (nsw, nuw, sle, sgt, sge, ule, ugt,
\* uge).
EnumPrintedFormRoundTrips ==
    attrOut.op = "parsed" =>
        /\ attrOut.res.st = "ok"
        /\ attrOut.res.val = attrIn.attr
        /\ attrOut.res.next = Len(EnumPrint(attrIn.attr)) + 1

----------------------------------------------------------------------------
(* Parsing an integer attribute and verifying what the parser returned       *)
(* (src/src/builtin/attributes.rs, impl Parsable and impl Verify for         *)
(* IntegerAttr). The type of the literal is interned while it is parsed.     *)

\* The numerals of the inputs.
IntNumerals ==
    {<<"0">>, <<"7">>, <<"8">>, <<"1", "5">>, <<"1", "6">>, <<"2", "5", "5">>,
     <<"2", "5", "6">>, <<"-", "1">>, <<"-", "8">>, <<"-", "9">>, <<"+", "7">>, <<"+", "8">>,
     <<"1", "-">>}

IntVerifyInputs ==
    [digits : IntNumerals, pad : 0..MaxPad, typePart : {IntegerTypePrint(t) : t \in IntTypeKeys}]

\* The outcome of IntegerType::parser inside the literal that begins at index
\* i: the type, which the parser interns, or none when the parse does not get
\* through the type.
IntegerAttrTypeParsed(text, i) ==
    LET d0 == SkipSpaces(text, i + 1)
        d1 == SkipWhile(text, d0, {DigitChars[d] : d \in DOMAIN DigitChars} \cup {"-", "+"})
        c0 == SkipSpaces(text, d1)
        ty == IntegerTypeParse(text, SkipSpaces(text, c0 + 1))
    IN  IF At(text, i) = "<" /\ d1 # d0 /\ At(text, c0) = ":" /\ ty.st = "ok"
        THEN [some |-> TRUE, val |-> ty.val]
        ELSE NoneOpt

\* attr_parser() on the text with the Context's table: the result, its type
\* replaced by the handle of the interned type, and the table after it.
AttrParseCtx(table, text) ==
    LET res == AttrParse(text, 1)
        ty == IntegerAttrTypeParsed(text, SkipSpaces(text, 2))
        in == IF ty.some THEN InternType(table, ty.val) ELSE [table |-> table, handle |-> 0]
    IN  [res |-> IF res.st = "ok" THEN Ok(IntegerAttrNew(in.handle, res.val.val), res.next)
                 ELSE res,
         table |-> in.table]

InitIntVerify ==
    /\ RegistryIdle
    /\ typeTable \in {<<>>, <<[ctor |-> "integer", params |-> <<8, "Signed">>]>>}
    /\ handed = {}
    /\ lastGet = NoGet
    /\ StringIdle
    /\ attrIn \in IntVerifyInputs
    /\ attrText = IntegerAttrText(attrIn)
    /\ attrOut = NoAttr
    /\ attrText2 = <<>>
    /\ RestIdle

\* let attr = attr_parser().parse(state_stream)
IntParseCtxStep ==
    /\ attrOut.op = "none"
    /\ LET r == AttrParseCtx(typeTable, attrText)
       IN  /\ attrOut' = [op |-> "parsed", res |-> r.res]
           /\ typeTable' = r.table
    /\ UNCHANGED <<attrIn, attrText, attrText2, registryVars, handed, lastGet, stringVars,
                   restVars>>

\* attr.verify(&ctx) on the attribute the parser returned
IntVerifyParsedStep ==
    /\ attrOut.op = "parsed"
    /\ attrOut.res.st = "ok"
    /\ attrOut' = [op |-> "verified", attr |-> attrOut.res.val,
                   verify |-> AttrVerify(typeTable, attrOut.res.val)]
    /\ UNCHANGED <<attrIn, attrText, attrText2, registryVars, internVars, stringVars, restVars>>

NextIntVerify == IntParseCtxStep \/ IntVerifyParsedStep

SpecIntVerify == InitIntVerify /\ [][NextIntVerify]_vars

----------------------------------------------------------------------------
(* Properties of parsing and verifying an integer attribute. *)

\* The integer type the text of the input names.
TypeWritten(in) == CHOOSE t \in IntTypeKeys : IntegerTypePrint(t) = in.typePart

\* C25: an IntegerAttr that IntegerAttr::parse returns passes
\* IntegerAttr::verify: its type is the interned type of the literal and its
\* value has the bit width of that type; a numeral that APInt::from_str
\* rejects for that width gives an InvalidInput error and no attribute, any
\* other numeral an attribute.
ParsedIntegerAttrVerifies ==
    /\ attrOut.op = "parsed" =>
            IF APIntFromStr(attrIn.digits, WidthOf(TypeWritten(attrIn))).ok
            THEN /\ attrOut.res.st = "ok"
                 /\ attrOut.res.val.kind = "integer"
                 /\ attrOut.res.val.ty \in DOMAIN typeTable
                 /\ typeTable[attrOut.res.val.ty] = TypeWritten(attrIn)
                 /\ attrOut.res.val.val.bw = typeTable[attrOut.res.val.ty].params[1]
            ELSE /\ attrOut.res.st = "err"
                 /\ attrOut.res.kind = "InvalidInput"
    /\ attrOut.op = "verified" =>
            attrOut.verify = [type |-> "Result", isErr |-> FALSE, val |-> "unit"]

\* `builtin.integer <-8: si4>` was parsed into a table that held si8 and the
\* attribute was verified.
ParsedSi4VerifiedReached ==
    /\ attrOut.op = "verified"
    /\ attrIn.digits = <<"-", "8">>
    /\ attrIn.typePart = <<"s", "i", "4">>
    /\ attrOut.attr = IntegerAttrNew(2, [bw |-> 4, bits |-> 8])
    /\ ~attrOut.verify.isErr

====
